---- MODULE Spec2Model ----
(***************************************************************************)
(* Model of the survival-gated revenue service of tai-x402:                *)
(*   - the balance classifiers of showBalance and run (tai-main),          *)
(*   - the x402 revenue server of createRevenueServer (revenue module),    *)
(*   - the multi-provider inference client (createMultiProviderClient),    *)
(*   - the resource monitor's poll (checkResources),                       *)
(*   - the agent loop's use of the balance and of the inference client,    *)
(*     its turns and its conversation history (runSimpleAgentLoop),        *)
(*   - the points ledger (UserSystem) and the chat handler behind the      *)
(*     Feishu bot (MessageHandler).                                        *)
(* Amounts of money are integers: balances and thresholds in cents,        *)
(* prices in fractions of one atomic USDC unit (1 USDC = 1,000,000 units). *)
(***************************************************************************)
EXTENDS Integers, Sequences, FiniteSets, TLC

VARIABLES
    thresholds,     \* config.survivalThresholds {normal, lowCompute, critical}
    shown,          \* what showBalance last printed: balance and status
    started,        \* what run last decided: balance, initialState, exited
    network,        \* RevenueConfig.network
    reqs,           \* the revenue server's requests, by request id
    earnings,       \* RevenueTracker.earnings (service -> amount)
    totalEarnings,  \* RevenueTracker.totalEarnings
    providers,      \* the InferenceProviders given to createMultiProviderClient
    router,         \* the client's closure: currentProvider, currentModel, maxTokens
    lastOp,         \* the last operation performed on the client
    agent,          \* runSimpleAgentLoop: position, turn count, last chat call
    kv,             \* the monitor's store: current_tier and financial_state
    lastStatus,     \* the ResourceStatus the last checkResources returned
    clock,          \* the time, as the number of polls started
    known,          \* the last credits balance a poll really obtained
    calls,          \* the client's chat calls, by call id
    wire,           \* one call of chatViaOpenAiCompatible / chatViaAnthropic
    recorders,      \* the callers of RevenueTracker.recordEarning, by id
    users,          \* UserSystem: the rows of the users table, by user id
    txs,            \* UserSystem: the rows of the transactions table, in order
    userOp,         \* the last UserSystem method called, with what it returned
    conversationHistory,  \* MessageHandler.conversationHistory (userId -> history)
    handlers,       \* the runs of the bot's event handler, by run id
    arrivals,       \* the number of messages the bot has received
    history,        \* runSimpleAgentLoop: conversationHistory
    loop            \* runSimpleAgentLoop: position, turnCount, calls in flight

tierVars == <<thresholds, shown, started>>
gateVars == <<network, reqs, earnings, totalEarnings>>
routerVars == <<providers, router, lastOp>>
agentVars == <<agent>>
monVars == <<kv, lastStatus, clock, known>>
callVars == <<calls, wire, recorders>>
userVars == <<users, txs, userOp>>
handlerVars == <<conversationHistory, handlers, arrivals>>
loopVars == <<history, loop>>
sessionVars == <<userVars, handlerVars, loopVars>>
nonGateVars == <<tierVars, routerVars, agentVars, monVars, callVars,
                 sessionVars>>
vars == <<thresholds, shown, started, network, reqs, earnings, totalEarnings,
          providers, router, lastOp, agent, kv, lastStatus, clock, known,
          calls, wire, recorders, users, txs, userOp,
          conversationHistory, handlers, arrivals, history, loop>>

(***************************************************************************)
(* Survival tiers                                                          *)
(***************************************************************************)

\* Cents per USDC: the resolution of balances and thresholds in the model.
CentsPerUsdc == 100

\* DEFAULT_CONFIG.survivalThresholds, in USDC.
DefaultNormal == 10
DefaultLowCompute == 5
DefaultCritical == 1

\* Threshold values a config file may carry (loadConfig merges the file over
\* the defaults without validating order), in cents.
ThresholdValues ==
    {0, DefaultCritical * CentsPerUsdc, DefaultLowCompute * CentsPerUsdc,
     DefaultNormal * CentsPerUsdc}

ThresholdConfigs ==
    [normal : ThresholdValues, lowCompute : ThresholdValues,
     critical : ThresholdValues]

DefaultThresholds ==
    [normal |-> DefaultNormal * CentsPerUsdc,
     lowCompute |-> DefaultLowCompute * CentsPerUsdc,
     critical |-> DefaultCritical * CentsPerUsdc]

\* Balances the oracle may report, in cents: each threshold value, one cent
\* below it and one cent above it (so 9.99, 10, 10.01, ..., and -0.01).
Balances ==
    UNION {{t - 1, t, t + 1} : t \in ThresholdValues}

AgentStates == {"running", "low_compute", "critical", "dead"}

\* showBalance: status starts "dead" and is raised by the first test that holds.
ShowBalanceStatus(balance, th) ==
    IF balance >= th.normal THEN "running"
    ELSE IF balance >= th.lowCompute THEN "low_compute"
    ELSE IF balance >= th.critical THEN "critical"
    ELSE "dead"

\* A run that tests with <= where the code tests with <.
RunInitialStateOffByOne(balance, th) ==
    IF balance <= th.critical THEN "dead"
    ELSE IF balance <= th.lowCompute THEN "critical"
    ELSE IF balance <= th.normal THEN "low_compute"
    ELSE "running"

\* run: initialState starts "running" and is lowered by the first test that holds.
RunInitialState(balance, th) ==
    IF balance < th.critical THEN "dead"
    ELSE IF balance < th.lowCompute THEN "critical"
    ELSE IF balance < th.normal THEN "low_compute"
    ELSE "running"

NotShown == [balance |-> 0, status |-> "none"]
NotStarted == [balance |-> 0, state |-> "none", exited |-> FALSE]

(***************************************************************************)
(* Inference client (createMultiProviderClient)                            *)
(***************************************************************************)

\* The slots of InferenceProviders, in the order createMultiProviderClient
\* looks for the primary provider.
ProviderSlots == <<"deepseek", "tongyi", "openai", "anthropic", "custom">>

\* maxTokens of a client whose primary provider sets none.
DefaultMaxTokens == 4096

\* maxTokens in low-compute mode.
LowComputeMaxTokens == 2048

\* A maxTokens a config file sets for a provider.
ConfiguredMaxTokens == 8192

\* The model name each provider is set up with by default.
DefaultModelOf(slot) ==
    CASE slot = "deepseek" -> "deepseek-chat"
      [] slot = "tongyi" -> "qwen-turbo"
      [] slot = "openai" -> "gpt-4o-mini"
      [] slot = "anthropic" -> "claude-3-5-sonnet-20241022"
      [] slot = "custom" -> "claude-opus-4-5-20251101"

\* Another model name a config file may give the provider.
OtherModelOf(slot) ==
    CASE slot = "deepseek" -> "deepseek-reasoner"
      [] slot = "tongyi" -> "qwen-max"
      [] slot = "openai" -> "gpt-4o"
      [] slot = "anthropic" -> "claude-3-haiku"
      [] slot = "custom" -> "llama-3"

\* A ProviderConfig, as far as the client's state depends on it; maxTokens 0
\* stands for an unset (or zero) maxTokens, which `|| 4096` replaces.
AbsentProvider == [configured |-> FALSE, defaultModel |-> "", maxTokens |-> 0]

\* A configured maxTokens below the low-compute budget.
SmallMaxTokens == 1024

ProviderConfigsOf(slot) ==
    {AbsentProvider,
     [configured |-> TRUE, defaultModel |-> DefaultModelOf(slot),
      maxTokens |-> 0],
     [configured |-> TRUE, defaultModel |-> OtherModelOf(slot),
      maxTokens |-> ConfiguredMaxTokens],
     [configured |-> TRUE, defaultModel |-> DefaultModelOf(slot),
      maxTokens |-> SmallMaxTokens]}

InferenceProviders ==
    [deepseek : ProviderConfigsOf("deepseek"),
     tongyi : ProviderConfigsOf("tongyi"),
     openai : ProviderConfigsOf("openai"),
     anthropic : ProviderConfigsOf("anthropic"),
     custom : ProviderConfigsOf("custom")]

NoProviders == [slot \in {"deepseek", "tongyi", "openai", "anthropic", "custom"}
                    |-> AbsentProvider]

\* The providers a setup with the defaults writes: deepseek alone.
WizardProviders ==
    [NoProviders EXCEPT
        !.deepseek = [configured |-> TRUE,
                      defaultModel |-> DefaultModelOf("deepseek"),
                      maxTokens |-> 0]]

\* A primary provider chosen with tongyi ahead of deepseek.
PrimaryProviderTongyiFirst(provs) ==
    IF provs.tongyi.configured THEN "tongyi"
    ELSE IF provs.deepseek.configured THEN "deepseek"
    ELSE IF provs.openai.configured THEN "openai"
    ELSE IF provs.anthropic.configured THEN "anthropic"
    ELSE IF provs.custom.configured THEN "custom"
    ELSE "none"

\* providers.deepseek || providers.tongyi || providers.openai ||
\* providers.anthropic || providers.custom
PrimaryProvider(provs) ==
    IF provs.deepseek.configured THEN "deepseek"
    ELSE IF provs.tongyi.configured THEN "tongyi"
    ELSE IF provs.openai.configured THEN "openai"
    ELSE IF provs.anthropic.configured THEN "anthropic"
    ELSE IF provs.custom.configured THEN "custom"
    ELSE "none"

\* primaryProvider.maxTokens || 4096
MaxTokensOf(provider) ==
    IF provider.maxTokens = 0 THEN DefaultMaxTokens ELSE provider.maxTokens

NoClient == [status |-> "none", provider |-> "none", model |-> "", maxTokens |-> 0]

\* A client that was not returned: the constructor threw
\* "No inference provider configured".
FailedClient == [NoClient EXCEPT !.status = "failed"]

\* The closure's state while the primary provider is active.
PrimaryState(provs) ==
    [status |-> "ready",
     provider |-> PrimaryProvider(provs),
     model |-> provs[PrimaryProvider(provs)].defaultModel,
     maxTokens |-> MaxTokensOf(provs[PrimaryProvider(provs)])]

\* createMultiProviderClient(providers)
CreateMultiProviderClient(provs) ==
    IF PrimaryProvider(provs) = "none" THEN FailedClient
    ELSE PrimaryState(provs)

\* A disabling that restores the provider and the model but not maxTokens.
SetLowComputeModeKeepsBudget(rt, provs, enabled) ==
    IF enabled
    THEN [rt EXCEPT
            !.provider = IF provs.deepseek.configured THEN "deepseek"
                         ELSE IF provs.tongyi.configured THEN "tongyi"
                         ELSE @,
            !.model = IF provs.deepseek.configured THEN "deepseek-chat"
                      ELSE IF provs.tongyi.configured THEN "qwen-turbo"
                      ELSE @,
            !.maxTokens = LowComputeMaxTokens]
    ELSE [PrimaryState(provs) EXCEPT !.maxTokens = rt.maxTokens]

\* An enabling that halves maxTokens where the code sets it to 2048.
SetLowComputeModeHalves(rt, provs, enabled) ==
    IF enabled
    THEN [rt EXCEPT
            !.provider = IF provs.deepseek.configured THEN "deepseek"
                         ELSE IF provs.tongyi.configured THEN "tongyi"
                         ELSE @,
            !.model = IF provs.deepseek.configured THEN "deepseek-chat"
                      ELSE IF provs.tongyi.configured THEN "qwen-turbo"
                      ELSE @,
            !.maxTokens = rt.maxTokens \div 2]
    ELSE PrimaryState(provs)

\* client.setLowComputeMode(enabled): the closure's state after the call.
SetLowComputeModeState(rt, provs, enabled) ==
    IF enabled
    THEN [rt EXCEPT
            !.provider = IF provs.deepseek.configured THEN "deepseek"
                         ELSE IF provs.tongyi.configured THEN "tongyi"
                         ELSE @,
            !.model = IF provs.deepseek.configured THEN "deepseek-chat"
                      ELSE IF provs.tongyi.configured THEN "qwen-turbo"
                      ELSE @,
            !.maxTokens = LowComputeMaxTokens]
    ELSE PrimaryState(provs)

\* client.getDefaultModel()
GetDefaultModel(rt) == rt.model

\* The record of the last operation on the client: which it was, the mode
\* the client was last put in (off at construction), and the call before it
\* ("create", "enable", "disable" or "none").
NoOp == [op |-> "none", mode |-> FALSE, before |-> "none"]

\* The name a call goes by as the call before the next one.
CallName(o) ==
    IF o.op = "setLowComputeMode"
    THEN (IF o.mode THEN "enable" ELSE "disable")
    ELSE o.op

\* The agent loop's record: where it is, the turns begun, the balance the
\* process last obtained and the last inference.chat call it made (with the
\* mode the client was in and the balance last obtained at that moment).
NoCall == [made |-> FALSE, lowCompute |-> FALSE, balance |-> 0]
NotRunning ==
    [pc |-> "off", turnCount |-> 0, observed |-> 0, lastCall |-> NoCall]

\* The monitor before any poll: nothing stored, nothing returned.
NoFinancial == [creditsCents |-> 0, usdcBalance |-> 0, lastChecked |-> 0]
NoKV == [current_tier |-> "none", financial_state |-> NoFinancial]
NoStatus ==
    [financial |-> NoFinancial, tier |-> "none", previousTier |-> "none",
     tierChanged |-> FALSE, sandboxHealthy |-> FALSE,
     threw |-> FALSE, failed |-> {}]
NoKnown == [has |-> FALSE, creditsCents |-> 0]

\* showBalance(): query the balance, print the status.
ShowBalance(balance) ==
    /\ shown' = [balance |-> balance,
                 status |-> ShowBalanceStatus(balance, thresholds)]
    /\ UNCHANGED <<thresholds, started>>
    /\ UNCHANGED <<gateVars, routerVars, agentVars, monVars, callVars, sessionVars>>

\* run(): create the inference client (which throws without a provider),
\* query the balance, choose the initial state; a dead agent exits
\* (process.exit(1)) before the state is stored, a critical or low_compute
\* one puts the client in low-compute mode, and every agent that did not exit
\* enters runSimpleAgentLoop.
Run(balance) ==
    LET client == CreateMultiProviderClient(providers)
        state == RunInitialState(balance, thresholds)
        low == state \in {"critical", "low_compute"}
    IN  /\ IF client.status = "failed"
           THEN /\ started' = [NotStarted EXCEPT !.exited = TRUE]
                /\ router' = client
                /\ lastOp' = [NoOp EXCEPT !.op = "create"]
                /\ agent' = NotRunning
           ELSE /\ started' = [balance |-> balance, state |-> state,
                               exited |-> state = "dead"]
                /\ router' = IF low
                             THEN SetLowComputeModeState(client, providers, TRUE)
                             ELSE client
                /\ lastOp' = IF low
                             THEN [op |-> "setLowComputeMode", mode |-> TRUE,
                                   before |-> "create"]
                             ELSE [NoOp EXCEPT !.op = "create"]
                /\ agent' = IF state = "dead" THEN NotRunning
                            ELSE [NotRunning EXCEPT !.pc = "chat",
                                                    !.observed = balance]
        /\ UNCHANGED <<thresholds, shown, providers>>
        /\ UNCHANGED <<gateVars, monVars, callVars, sessionVars>>

GateIdle ==
    /\ network = "base"
    /\ reqs = <<>>
    /\ earnings = <<>>
    /\ totalEarnings = 0

MonitorIdle ==
    /\ kv = NoKV
    /\ lastStatus = NoStatus
    /\ clock = 0
    /\ known = NoKnown

\* No user system, no message handler and no agent-loop history.
SessionsIdle ==
    /\ users = <<>>
    /\ txs = <<>>
    /\ userOp = <<>>
    /\ conversationHistory = <<>>
    /\ handlers = <<>>
    /\ arrivals = 0
    /\ history = <<>>
    /\ loop = <<>>

\* No chat call, no backend call, no caller of the tracker and no session.
CallsIdle ==
    /\ calls = <<>>
    /\ wire = <<>>
    /\ recorders = <<>>
    /\ SessionsIdle

\* No process started: no client, no agent loop.
ProcessIdle ==
    /\ router = NoClient
    /\ lastOp = NoOp
    /\ agent = NotRunning

InitTier ==
    /\ thresholds \in ThresholdConfigs
    /\ shown = NotShown
    /\ started = NotStarted
    /\ providers = WizardProviders
    /\ ProcessIdle
    /\ GateIdle
    /\ MonitorIdle
    /\ CallsIdle

NextTier ==
    \/ \E b \in Balances : ShowBalance(b)
    \/ \E b \in Balances : Run(b)

SpecTier == InitTier /\ [][NextTier]_vars

(***************************************************************************)
(* C1: tier classification                                                 *)
(***************************************************************************)

OrderedThresholds(th) ==
    th.normal > th.lowCompute /\ th.lowCompute > th.critical /\ th.critical >= 0

\* Operating quality of a status, ascending.
Rank(s) ==
    CASE s = "dead" -> 0
      [] s = "critical" -> 1
      [] s = "low_compute" -> 2
      [] s = "running" -> 3

\* The tier table of the data model, one line per tier.
TierTable(b, s, th) ==
    /\ b >= th.normal => s = "running"
    /\ (th.lowCompute <= b /\ b < th.normal) => s = "low_compute"
    /\ (th.critical <= b /\ b < th.lowCompute) => s = "critical"
    /\ b < th.critical => s = "dead"
    /\ s = "dead" <=> b < th.critical

\* C1: with ordered thresholds, the status showBalance prints and the initial
\* state run chooses follow the tier table (normal at or above normalMin,
\* low_compute in [lowComputeMin, normalMin), critical in [criticalMin,
\* lowComputeMin), dead below criticalMin), so the status is monotonic in the
\* balance and is dead exactly below criticalMin.
C1_TierClassification ==
    OrderedThresholds(thresholds) =>
        /\ shown.status # "none" =>
               TierTable(shown.balance, shown.status, thresholds)
        /\ started.state # "none" =>
               /\ TierTable(started.balance, started.state, thresholds)
               /\ started.exited <=> started.balance < thresholds.critical
        /\ (shown.status # "none" /\ started.state # "none") =>
               /\ shown.balance <= started.balance =>
                      Rank(shown.status) <= Rank(started.state)
               /\ started.balance <= shown.balance =>
                      Rank(started.state) <= Rank(shown.status)

\* The documented example: thresholds 10/5/1, 9.99 shown as low_compute and a run
\* at 4.99 started as critical.
C1_Witness ==
    /\ thresholds = DefaultThresholds
    /\ shown = [balance |-> DefaultNormal * CentsPerUsdc - 1,
                status |-> "low_compute"]
    /\ started = [balance |-> DefaultLowCompute * CentsPerUsdc - 1,
                  state |-> "critical", exited |-> FALSE]

(***************************************************************************)
(* Revenue server (x402 gate)                                              *)
(***************************************************************************)

\* Requests the server handles concurrently (each async handler run
\* interleaves with the others at its awaits).
MaxReqs == 2
ReqIds == 1..MaxReqs

\* Price resolution: a price is a whole number of 1/UnitsPerAtomic of one
\* atomic USDC unit, so that prices below one atomic unit exist.
UnitsPerAtomic == 10

\* priceUsdc * 1_000_000 converts a price to atomic USDC units.
AtomicPerUsdc == 1000000

\* requiredDeadlineSeconds of the challenge.
RequiredDeadlineSeconds == 300

\* One thousandth of a USDC, in price units.
MilliUsdc == (AtomicPerUsdc \div 1000) * UnitsPerAtomic

USDC_ADDRESSES ==
    [n \in {"base", "base-sepolia"} |->
        IF n = "base" THEN "0x833589fCD6eDb6E08f4c7C32D4f71b54bdA02913"
        ELSE "0x036CbD53842c5426634e7929541eC2318f3dCF7e"]

Networks == {"base", "base-sepolia"}

\* config.walletAddress, the receiving address.
WalletAddress == "0xWALLET"

\* createDefaultServices: the five built-in services (handlers are modelled
\* by Handler below).
DefaultServices ==
    << [path |-> "/api/chat", description |-> "Chat with the AI agent",
        priceUsdc |-> 1 * MilliUsdc],
       [path |-> "/api/summarize", description |-> "Summarize text content",
        priceUsdc |-> 5 * MilliUsdc],
       [path |-> "/api/translate",
        description |-> "Translate text to another language",
        priceUsdc |-> 3 * MilliUsdc],
       [path |-> "/api/code", description |-> "Generate or explain code",
        priceUsdc |-> 10 * MilliUsdc],
       [path |-> "/api/analyze", description |-> "Analyze data or text",
        priceUsdc |-> 8 * MilliUsdc] >>

\* A configured service whose price is not a whole number of atomic units
\* (0.0000015 USDC): ServiceConfig.priceUsdc is any number.
MicroService ==
    [path |-> "/api/micro", description |-> "Micro-priced service",
     priceUsdc |-> UnitsPerAtomic + UnitsPerAtomic \div 2]

\* config.services
Services == DefaultServices \o <<MicroService>>

\* Request targets (req.url). new URL(req.url || "/", base) throws on "//"
\* (a scheme-relative reference with an empty host); for the others the
\* pathname is the target.
Targets == {"/health", "/services", "/api/chat", "/api/micro", "/nope", "//"}

UrlParses(target) == target # "//"

\* services.find(s => s.path === url.pathname) answering the first entry
\* whatever the path.
FindServiceFirst(pathname) == <<Services[1]>>

\* services.find(s => s.path === url.pathname): the first entry with that
\* path, as a sequence of length 0 (undefined) or 1.
FindService(pathname) ==
    LET hits == {i \in DOMAIN Services : Services[i].path = pathname}
    IN  IF hits = {} THEN <<>>
        ELSE <<Services[CHOOSE i \in hits : \A j \in hits : i <= j]>>

\* The X-Payment header as the server sees it:
\*   absent  - no header (undefined)
\*   empty   - a header with an empty value
\*   garbage - a value JSON.parse rejects
\*   json    - a value JSON.parse accepts: a payment assertion with a nonce,
\*             a signature (valid or not), an amount in atomic units and a
\*             deadline (elapsed or not)
NoPayment == [nonce |-> 0, sigValid |-> FALSE, amount |-> 0, expired |-> FALSE]

LowAmount == 1
HighAmount == 10000

Assertions ==
    { [nonce |-> 1, sigValid |-> TRUE, amount |-> HighAmount, expired |-> FALSE],
      [nonce |-> 2, sigValid |-> FALSE, amount |-> HighAmount, expired |-> FALSE],
      [nonce |-> 3, sigValid |-> TRUE, amount |-> LowAmount, expired |-> FALSE],
      [nonce |-> 4, sigValid |-> TRUE, amount |-> HighAmount, expired |-> TRUE] }

Headers ==
    {[kind |-> k, payment |-> NoPayment] : k \in {"absent", "empty", "garbage"}}
    \cup {[kind |-> "json", payment |-> a] : a \in Assertions}

\* !paymentHeader: undefined and the empty string are both falsy.
HeaderMissing(hdr) == hdr.kind \in {"absent", "empty"}

\* JSON.parse(paymentHeader) returns (does not throw).
HeaderParses(hdr) == hdr.kind = "json"

\* Request bodies, as the chunks the request stream yields.
MaxChunks == 2
Chunks == {"{\"message\":", "\"hi\"}"}
Payloads == UNION {[1..n -> Chunks] : n \in 0..MaxChunks}

\* JSON.parse(body) in a service handler returns an object (does not throw).
BodyParses(body) == body = "{\"message\":\"hi\"}"

\* What inference.chat settles with: a response whose message.content is the
\* reply, or a rejection.
Replies == {"hi"}
InferenceOutcomes ==
    {[ok |-> TRUE, content |-> c] : c \in Replies}
    \cup {[ok |-> FALSE, content |-> ""]}

\* A conversion that rounds down (Math.floor) where the code rounds up.
FloorDiv(num, den) == num \div den

\* Math.ceil of the rational num/den (den > 0, num >= 0).
CeilDiv(num, den) ==
    IF num % den = 0 THEN num \div den ELSE num \div den + 1

\* Math.ceil(service.priceUsdc * 1_000_000): the priceUsdc of the model is
\* price / (AtomicPerUsdc * UnitsPerAtomic) USDC, so the product is
\* price / UnitsPerAtomic.
MaxAmount(priceUsdc) == CeilDiv(priceUsdc, UnitsPerAtomic)

Digit(d) == CASE d = 0 -> "0" [] d = 1 -> "1" [] d = 2 -> "2" [] d = 3 -> "3"
              [] d = 4 -> "4" [] d = 5 -> "5" [] d = 6 -> "6" [] d = 7 -> "7"
              [] d = 8 -> "8" [] d = 9 -> "9"

\* String(n) for a natural number n: its decimal digits.
RECURSIVE NumberToString(_)
NumberToString(n) ==
    IF n < 10 THEN Digit(n)
    ELSE NumberToString(n \div 10) \o Digit(n % 10)

ChainId(net) == IF net = "base-sepolia" THEN "eip155:84532" ELSE "eip155:8453"

\* The X-Payment-Required header of the 402 response.
PaymentRequired(service, net) ==
    [x402Version |-> 1,
     accepts |-> << [scheme |-> "exact",
                     network |-> ChainId(net),
                     maxAmountRequired |-> NumberToString(MaxAmount(service.priceUsdc)),
                     payToAddress |-> WalletAddress,
                     requiredDeadlineSeconds |-> RequiredDeadlineSeconds,
                     usdcAddress |-> USDC_ADDRESSES[net]] >>]

\* A request: where its handler run stands, what it carried, what it got.
\*   pc: idle (not yet arrived), reading (awaiting a body chunk), inference
\*       (awaiting the service handler), done (the run returned), rejected
\*       (the run threw: its promise rejected)
\*   ends: the number of res.end calls; status, header, respBody: the response
\*   calls: invocations of a service handler, handlerPath / handlerBody: the
\*       service invoked and the body it was given
IdleReq ==
    [pc |-> "idle", target |-> "", hdr |-> [kind |-> "absent", payment |-> NoPayment],
     payload |-> <<>>, nread |-> 0, body |-> "",
     calls |-> 0, handlerPath |-> "", handlerBody |-> "",
     inference |-> [ok |-> FALSE, content |-> ""],
     ends |-> 0, status |-> 0, header |-> <<>>, respBody |-> [none |-> TRUE]]

\* res.writeHead(status, headers); res.end(JSON.stringify(body)); return
\* (the listener's locals, body among them, end with the run)
Respond(q, status, header, body) ==
    [q EXCEPT !.pc = "done", !.ends = q.ends + 1, !.status = status,
              !.header = header, !.respBody = body, !.body = "", !.nread = 0]

\* The catch block of the payment branch: 400 {error: "Invalid payment"}.
CatchInvalidPayment(q) == Respond(q, 400, <<>>, [error |-> "Invalid payment"])

\* The listing GET /services answers with.
\* A listing of the default services alone, without those added after them.
ServiceListingDefaults ==
    [i \in DOMAIN DefaultServices |->
        [path |-> Services[i].path, description |-> Services[i].description,
         priceUsdc |-> Services[i].priceUsdc]]

ServiceListing ==
    [i \in DOMAIN Services |->
        [path |-> Services[i].path, description |-> Services[i].description,
         priceUsdc |-> Services[i].priceUsdc]]

\* The request listener up to its first await: URL parsing (outside any try),
\* the free endpoints, the catalog lookup, the 402 challenge, JSON.parse of
\* the X-Payment header. A run that gets past them starts reading the body.
Dispatch(q, payload, net) ==
    LET service == FindService(q.target) IN
    IF ~UrlParses(q.target) THEN [q EXCEPT !.pc = "rejected"]
    ELSE IF q.target = "/health" THEN
        Respond(q, 200, <<>>, [status |-> "ok", services |-> Len(Services)])
    ELSE IF q.target = "/services" THEN
        Respond(q, 200, <<>>,
                [services |-> ServiceListing, paymentAddress |-> WalletAddress,
                 network |-> net])
    ELSE IF service = <<>> THEN
        Respond(q, 404, <<>>, [error |-> "Service not found"])
    ELSE IF HeaderMissing(q.hdr) THEN
        Respond(q, 402, <<PaymentRequired(service[1], net)>>,
                [error |-> "Payment required", price |-> service[1].priceUsdc,
                 currency |-> "USDC", payTo |-> WalletAddress, network |-> net])
    ELSE IF ~HeaderParses(q.hdr) THEN CatchInvalidPayment(q)
    ELSE [q EXCEPT !.pc = "reading", !.payload = payload]

\* A request arrives and its listener runs to its first await.
HandleRequest(r, target, hdr, payload) ==
    /\ reqs[r].pc = "idle"
    /\ reqs' = [reqs EXCEPT ![r] =
           Dispatch([reqs[r] EXCEPT !.target = target, !.hdr = hdr],
                    payload, network)]
    \* the body of a request is looked at only by a run that reads it
    /\ payload = <<>> \/ reqs'[r].pc = "reading"
    /\ UNCHANGED <<network, earnings, totalEarnings>>
    /\ UNCHANGED nonGateVars

\* for await (const chunk of req) body += chunk
ReadChunk(r) ==
    /\ reqs[r].pc = "reading"
    /\ reqs[r].nread < Len(reqs[r].payload)
    /\ reqs' = [reqs EXCEPT ![r].nread = @ + 1,
                            ![r].body = @ \o reqs[r].payload[reqs[r].nread + 1]]
    /\ UNCHANGED <<network, earnings, totalEarnings>>
    /\ UNCHANGED nonGateVars

\* The request stream fails while the body is read (the connection drops):
\* the for await throws into the catch block.
StreamError(r) ==
    /\ reqs[r].pc = "reading"
    /\ reqs' = [reqs EXCEPT ![r] = CatchInvalidPayment(reqs[r])]
    /\ UNCHANGED <<network, earnings, totalEarnings>>
    /\ UNCHANGED nonGateVars

\* service.handler(req, body) up to its await: JSON.parse(body) throws into
\* the gate's catch block, or inference.chat is called and awaited.
InvokeHandler(q) ==
    LET called == [q EXCEPT !.calls = q.calls + 1, !.handlerPath = q.target,
                            !.handlerBody = q.body]
    IN  IF BodyParses(q.body) THEN [called EXCEPT !.pc = "inference"]
        ELSE CatchInvalidPayment(called)

\* A handler invoked with the chunks read so far, whether or not the stream
\* has ended.
EndOfBodyEarly(r) ==
    /\ reqs[r].pc = "reading"
    /\ reqs' = [reqs EXCEPT ![r] = InvokeHandler(reqs[r])]
    /\ UNCHANGED <<network, earnings, totalEarnings>>
    /\ UNCHANGED nonGateVars

\* The request stream ends: the loop exits and the handler is invoked.
EndOfBody(r) ==
    /\ reqs[r].pc = "reading"
    /\ reqs[r].nread = Len(reqs[r].payload)
    /\ reqs' = [reqs EXCEPT ![r] = InvokeHandler(reqs[r])]
    /\ UNCHANGED <<network, earnings, totalEarnings>>
    /\ UNCHANGED nonGateVars

\* The rest of the listener once the handler's promise settles: 200 with the
\* result, or the catch block.
Settle(q, out) ==
    LET got == [q EXCEPT !.inference = out] IN
    IF out.ok THEN Respond(got, 200, <<>>, [result |-> out.content])
    ELSE CatchInvalidPayment(got)

\* inference.chat settles and the handler returns response.message.content
\* or throws.
InferenceSettles(r, out) ==
    /\ reqs[r].pc = "inference"
    /\ reqs' = [reqs EXCEPT ![r] = Settle(reqs[r], out)]
    /\ UNCHANGED <<network, earnings, totalEarnings>>
    /\ UNCHANGED nonGateVars

InitGate ==
    /\ thresholds = DefaultThresholds
    /\ shown = NotShown
    /\ started = NotStarted
    /\ network \in Networks
    /\ reqs = [r \in ReqIds |-> IdleReq]
    /\ earnings = <<>>
    /\ totalEarnings = 0
    /\ providers = WizardProviders
    /\ ProcessIdle
    /\ MonitorIdle
    /\ CallsIdle

NextGate ==
    \/ \E r \in ReqIds, t \in Targets, h \in Headers, p \in Payloads :
           HandleRequest(r, t, h, p)
    \/ \E r \in ReqIds : ReadChunk(r)
    \/ \E r \in ReqIds : StreamError(r)
    \/ \E r \in ReqIds : EndOfBody(r)
    \/ \E r \in ReqIds, out \in InferenceOutcomes : InferenceSettles(r, out)

SpecGate == InitGate /\ [][NextGate]_vars

(***************************************************************************)
(* C2 - C10: the revenue gate                                              *)
(***************************************************************************)

DiscoveryPaths == {"/health", "/services"}
CatalogPaths == {Services[i].path : i \in DOMAIN Services}

\* A request to a known paid path.
ToPaidPath(q) == q.target \in CatalogPaths \ DiscoveryPaths

PriceOf(path) ==
    Services[CHOOSE i \in DOMAIN Services : Services[i].path = path].priceUsdc

\* ceil(priceUsdc * 1_000_000): the least whole number of atomic units that
\* covers the price.
RequiredAmount(path) ==
    LET whole == PriceOf(path) \div UnitsPerAtomic IN
    CHOOSE n \in {whole, whole + 1} :
        /\ n * UnitsPerAtomic >= PriceOf(path)
        /\ (n - 1) * UnitsPerAtomic < PriceOf(path)

\* Real verification of a payment assertion for a service.
Verified(payment, path) ==
    /\ payment.sigValid
    /\ payment.amount >= RequiredAmount(path)
    /\ ~payment.expired

\* The service handler of the request was invoked / returned a string.
HandlerInvoked(q) == q.calls > 0
HandlerReturned(q) == q.calls > 0 /\ q.pc = "done" /\ q.inference.ok
HandlerFailed(q) == q.calls > 0 /\ q.pc = "done" /\ ~q.inference.ok

RECURSIVE Concat(_)
Concat(chunks) ==
    IF chunks = <<>> THEN "" ELSE Head(chunks) \o Concat(Tail(chunks))

RECURSIVE SumOver(_, _)
SumOver(f, S) ==
    IF S = {} THEN 0
    ELSE LET x == CHOOSE x \in S : TRUE IN f[x] + SumOver(f, S \ {x})

\* What the ledger should hold: the price of every request whose handler
\* returned, under its path.
OwedFor(path) ==
    SumOver([r \in ReqIds |-> PriceOf(path)],
            {r \in ReqIds : HandlerReturned(reqs[r]) /\ reqs[r].target = path})
OwedTotal ==
    SumOver([r \in ReqIds |-> PriceOf(reqs[r].target)],
            {r \in ReqIds : HandlerReturned(reqs[r])})
LedgerFor(path) == IF path \in DOMAIN earnings THEN earnings[path] ELSE 0

\* C2: a service handler is invoked for a request to a paid path only if the
\* payment assertion in X-Payment is verified: valid signature, amount at
\* least the required amount of the service, deadline not elapsed.
C2_HandlerOnlyAfterVerification ==
    \A r \in ReqIds :
        HandlerInvoked(reqs[r]) =>
            /\ reqs[r].hdr.kind = "json"
            /\ Verified(reqs[r].hdr.payment, reqs[r].target)

\* C3: a payment assertion is redeemed at most once: no two requests carrying
\* the same assertion both have their handler invoked.
C3_NoReplay ==
    \A r1, r2 \in ReqIds :
        (r1 # r2 /\ HandlerInvoked(reqs[r1]) /\ HandlerInvoked(reqs[r2])) =>
            reqs[r1].hdr.payment # reqs[r2].hdr.payment

\* C4: the ledger holds exactly the prices of the requests whose handler
\* returned successfully, each under its path; rejected and failed requests
\* add nothing.
C4_EarningsIffHandlerSucceeded ==
    /\ totalEarnings = OwedTotal
    /\ \A path \in CatalogPaths : LedgerFor(path) = OwedFor(path)

\* C5: a request to a known paid path without an X-Payment header is answered
\* 402 with an X-Payment-Required header whose accepts[0] has
\* maxAmountRequired = ceil(priceUsdc * 1_000_000) (1000 for /api/chat),
\* scheme "exact", payToAddress the receiving address and
\* requiredDeadlineSeconds 300; the handler is not invoked.
C5_Challenge ==
    \A r \in ReqIds :
        LET q == reqs[r] IN
        (q.pc # "idle" /\ ToPaidPath(q) /\ q.hdr.kind = "absent") =>
            /\ q.pc = "done" /\ q.ends = 1 /\ q.status = 402
            /\ Len(q.header) = 1
            /\ Len(q.header[1].accepts) >= 1
            /\ q.header[1].accepts[1].maxAmountRequired
                   = NumberToString(RequiredAmount(q.target))
            /\ q.target = "/api/chat" =>
                   q.header[1].accepts[1].maxAmountRequired = "1000"
            /\ q.header[1].accepts[1].scheme = "exact"
            /\ q.header[1].accepts[1].payToAddress = WalletAddress
            /\ q.header[1].accepts[1].requiredDeadlineSeconds = 300
            /\ ~HandlerInvoked(q)

\* A challenge for a price that is not a whole number of atomic units
\* (1.5 units, rounded up to 2).
C5_Witness ==
    \E r \in ReqIds :
        /\ reqs[r].pc = "done" /\ reqs[r].target = "/api/micro"
        /\ reqs[r].hdr.kind = "absent" /\ reqs[r].status = 402
        /\ reqs[r].header[1].accepts[1].maxAmountRequired = "2"

C7_InvalidPayment400 ==
    \A r \in ReqIds :
        LET q == reqs[r] IN
        (q.pc = "done" /\ ToPaidPath(q) /\ q.hdr.kind \in {"garbage", "json"}
            /\ (q.hdr.kind = "garbage" \/ ~Verified(q.hdr.payment, q.target))) =>
            /\ q.status = 400
            /\ q.respBody = [error |-> "Invalid payment"]
            /\ ~HandlerInvoked(q)
            /\ totalEarnings = 0

\* C8: when the payment was accepted and the service handler fails (an
\* inference error, a malformed request body), the response has a 5xx status
\* and a JSON error body, and no earnings are recorded.
C8_HandlerFailure5xx ==
    \A r \in ReqIds :
        LET q == reqs[r] IN
        HandlerFailed(q) =>
            /\ q.status \in 500..599
            /\ "error" \in DOMAIN q.respBody
            /\ totalEarnings = 0

\* C9: for a request to a paid path with an accepted payment whose handler
\* returns a string, the gate reads the whole body first, invokes the handler
\* of the matching service exactly once with that body, and then responds
\* 200 {result: <the string>}.
C9_SuccessPath ==
    \A r \in ReqIds :
        LET q == reqs[r] IN
        /\ HandlerInvoked(q) =>
               /\ q.calls = 1
               /\ q.handlerPath = q.target /\ ToPaidPath(q)
               /\ q.handlerBody = Concat(q.payload)
        /\ (q.status = 200 /\ ToPaidPath(q)) => HandlerReturned(q)
        /\ HandlerReturned(q) =>
               /\ q.ends = 1 /\ q.status = 200
               /\ q.respBody = [result |-> q.inference.content]

\* /api/chat, body sent in two chunks, the backend answers "hi": 200 {result: "hi"}.
C9_Witness ==
    \E r \in ReqIds :
        /\ reqs[r].target = "/api/chat" /\ Len(reqs[r].payload) = 2
        /\ reqs[r].handlerBody = "{\"message\":\"hi\"}"
        /\ reqs[r].status = 200 /\ reqs[r].respBody = [result |-> "hi"]

\* C10: every request whose listener run has ended got exactly one response,
\* with a JSON body and a status among 200, 400, 402, 404 and 5xx; no run ends
\* by throwing.
C10_EveryRunAnswers ==
    \A r \in ReqIds :
        LET q == reqs[r] IN
        q.pc \in {"done", "rejected"} =>
            /\ q.pc = "done"
            /\ q.ends = 1
            /\ q.status \in {200, 400, 402, 404} \cup 500..599

\* C11: the discovery paths are free. A request to /health or /services is
\* answered once, with status 200 and no X-PAYMENT-REQUIRED header, whatever
\* its X-Payment header; the /health body carries the number of services in
\* the catalog, the /services body lists every service of the catalog (path,
\* description, priceUsdc) together with the payment address and the network;
\* no service handler is invoked.
C11_Discovery ==
    \A r \in ReqIds :
        LET q == reqs[r] IN
        (q.pc # "idle" /\ q.target \in DiscoveryPaths) =>
            /\ q.pc = "done" /\ q.ends = 1 /\ q.status = 200
            /\ q.header = <<>>
            /\ ~HandlerInvoked(q)
            /\ IF q.target = "/health"
               THEN /\ DOMAIN q.respBody = {"status", "services"}
                    /\ q.respBody.status = "ok"
                    /\ q.respBody.services = Len(Services)
               ELSE /\ DOMAIN q.respBody =
                           {"services", "paymentAddress", "network"}
                    /\ q.respBody.paymentAddress = WalletAddress
                    /\ q.respBody.network = network
                    /\ Len(q.respBody.services) = Len(Services)
                    /\ \A i \in DOMAIN Services :
                           q.respBody.services[i] =
                               [path |-> Services[i].path,
                                description |-> Services[i].description,
                                priceUsdc |-> Services[i].priceUsdc]

\* /services answered to a request that carries a payment which would pay for
\* a service, and /health answered to one without a header.
C11_Witness ==
    \E r1, r2 \in ReqIds :
        /\ reqs[r1].target = "/services" /\ reqs[r1].hdr.kind = "json"
        /\ Verified(reqs[r1].hdr.payment, "/api/chat")
        /\ reqs[r1].status = 200
        /\ reqs[r2].target = "/health" /\ reqs[r2].hdr.kind = "absent"
        /\ reqs[r2].status = 200

(***************************************************************************)
(* Inference client: construction and mode switch                          *)
(***************************************************************************)

\* createMultiProviderClient(providers): the client, or the throw.
CreateClient ==
    /\ router.status = "none"
    /\ router' = CreateMultiProviderClient(providers)
    /\ lastOp' = [NoOp EXCEPT !.op = "create"]
    /\ UNCHANGED <<providers, agent>>
    /\ UNCHANGED <<tierVars, gateVars, monVars, callVars, sessionVars>>

\* client.setLowComputeMode(enabled)
SetLowComputeMode(enabled) ==
    /\ router.status = "ready"
    /\ router' = SetLowComputeModeState(router, providers, enabled)
    /\ lastOp' = [op |-> "setLowComputeMode", mode |-> enabled,
                  before |-> CallName(lastOp)]
    /\ UNCHANGED <<providers, agent>>
    /\ UNCHANGED <<tierVars, gateVars, monVars, callVars, sessionVars>>

InitRouter ==
    /\ providers \in InferenceProviders
    /\ ProcessIdle
    /\ thresholds = DefaultThresholds
    /\ shown = NotShown
    /\ started = NotStarted
    /\ GateIdle
    /\ MonitorIdle
    /\ CallsIdle

NextRouter ==
    \/ CreateClient
    \/ \E enabled \in BOOLEAN : SetLowComputeMode(enabled)

SpecRouter == InitRouter /\ [][NextRouter]_vars

(***************************************************************************)
(* C17 - C20: the inference client's state                                 *)
(***************************************************************************)

Configured(slot) == providers[slot].configured

\* The last call was setLowComputeMode with the argument of the call before.
Repeated(o) == o.op = "setLowComputeMode" /\ o.before = CallName(o)

\* The first configured slot in the order deepseek, tongyi, openai,
\* anthropic, custom (there is one).
FirstConfigured ==
    LET i == CHOOSE k \in DOMAIN ProviderSlots :
                 /\ Configured(ProviderSlots[k])
                 /\ \A j \in 1..(k - 1) : ~Configured(ProviderSlots[j])
    IN  ProviderSlots[i]

\* C17: createMultiProviderClient throws when no provider is configured;
\* otherwise the active provider of the new client is the first configured one
\* in the order deepseek, tongyi, openai, anthropic, custom, the active model
\* is that provider's default model and the token budget is that provider's
\* maxTokens, or 4096 when it sets none.
C17_Construction ==
    lastOp.op = "create" =>
        IF \A k \in DOMAIN ProviderSlots : ~Configured(ProviderSlots[k])
        THEN router.status = "failed"
        ELSE /\ router.status = "ready"
             /\ router.provider = FirstConfigured
             /\ router.model = providers[FirstConfigured].defaultModel
             /\ router.maxTokens =
                    IF providers[FirstConfigured].maxTokens = 0
                    THEN DefaultMaxTokens
                    ELSE providers[FirstConfigured].maxTokens

\* A client built from openai (no maxTokens) and custom, without deepseek and
\* tongyi: openai is active with a budget of 4096.
C17_Witness ==
    /\ lastOp.op = "create"
    /\ ~Configured("deepseek") /\ ~Configured("tongyi")
    /\ Configured("openai") /\ providers.openai.maxTokens = 0
    /\ Configured("custom")
    /\ router.provider = "openai"
    /\ router.maxTokens = DefaultMaxTokens

\* C18: setLowComputeMode(v) called twice in a row leaves the client as one
\* call does, for v true and v false: the second call changes nothing.
C18_Idempotent ==
    [][Repeated(lastOp') => router' = router]_vars

\* Low-compute mode enabled twice on a client of tongyi: the budget is the
\* low-compute one, not the provider's.
C18_Witness ==
    /\ Repeated(lastOp) /\ lastOp.mode
    /\ ~Configured("deepseek") /\ Configured("tongyi")
    /\ router.provider = "tongyi"
    /\ router.maxTokens = LowComputeMaxTokens
    /\ router.maxTokens # MaxTokensOf(providers.tongyi)

\* C19: after setLowComputeMode(true) the active provider is the first
\* configured one in the cheapest-first order (deepseek, then tongyi, then
\* the rest), and getDefaultModel returns the default model that provider
\* is configured with.
C19_LowComputeSelection ==
    (lastOp.op = "setLowComputeMode" /\ lastOp.mode) =>
        /\ router.provider = FirstConfigured
        /\ GetDefaultModel(router) = providers[FirstConfigured].defaultModel

\* C20: after setLowComputeMode(false), whatever calls came before it, the
\* client is as it was when it was constructed: primary provider, its default
\* model, its token budget.
C20_DisableRestores ==
    (lastOp.op = "setLowComputeMode" /\ ~lastOp.mode) =>
        /\ router.status = "ready"
        /\ router.provider = FirstConfigured
        /\ router.model = providers[FirstConfigured].defaultModel
        /\ router.maxTokens =
               IF providers[FirstConfigured].maxTokens = 0
               THEN DefaultMaxTokens
               ELSE providers[FirstConfigured].maxTokens

\* Low-compute mode disabled right after it was enabled, where enabling it
\* had changed the model and the budget.
C20_Witness ==
    /\ lastOp.op = "setLowComputeMode" /\ ~lastOp.mode
    /\ lastOp.before = "enable"
    /\ router.provider = "deepseek"
    /\ router.model = OtherModelOf("deepseek")
    /\ router.maxTokens = ConfiguredMaxTokens

(***************************************************************************)
(* Resource monitor (checkResources)                                       *)
(***************************************************************************)

\* Polls a run of the monitor makes.
MaxPolls == 3

SurvivalTiers == {"normal", "low_compute", "critical", "dead"}

\* getSurvivalTier(creditsCents): the tier table of the data model.
GetSurvivalTier(creditsCents, th) ==
    IF creditsCents >= th.normal THEN "normal"
    ELSE IF creditsCents >= th.lowCompute THEN "low_compute"
    ELSE IF creditsCents >= th.critical THEN "critical"
    ELSE "dead"

\* What conway.getCreditsBalance() may do: return an amount, or throw.
CreditsOutcomes ==
    {[ok |-> TRUE, value |-> b] : b \in {x \in Balances : x >= 0}}
        \cup {[ok |-> FALSE, value |-> 0]}

\* What getUsdcBalance(identity.address) may do: return an amount, or throw.
UsdcOutcomes ==
    {[ok |-> TRUE, value |-> b] :
        b \in {DefaultCritical * CentsPerUsdc - 1, DefaultNormal * CentsPerUsdc}}
        \cup {[ok |-> FALSE, value |-> 0]}

\* What conway.exec("echo ok", 5000) may do: exit with 0, exit with another
\* code, or throw.
ProbeOutcomes == {"exit0", "exit1", "throws"}

\* A credits query whose exception is not caught.
TryGetCreditsUncaught(out) ==
    [raised |-> ~out.ok, value |-> IF out.ok THEN out.value ELSE 0]

\* let creditsCents = 0; try { creditsCents = await ...; } catch {}
TryGetCredits(out) ==
    [raised |-> FALSE, value |-> IF out.ok THEN out.value ELSE 0]

\* let usdcBalance = 0; try { usdcBalance = await ...; } catch {}
TryGetUsdc(out) ==
    [raised |-> FALSE, value |-> IF out.ok THEN out.value ELSE 0]

\* let sandboxHealthy = true; try { ... = result.exitCode === 0; }
\* catch { sandboxHealthy = false; }
TryProbe(out) ==
    [raised |-> FALSE, value |-> out = "exit0"]

\* previousTier !== null && previousTier !== tier
TierChanged(previousTier, tier) ==
    previousTier # "none" /\ previousTier # tier

\* A store that is written only when the tier differs from the stored one.
PersistOnChange(store, tier, financial) ==
    IF store.current_tier = tier THEN store
    ELSE [current_tier |-> tier, financial_state |-> financial]

\* db.setKV("current_tier", tier); db.setKV("financial_state", ...)
Persist(store, tier, financial) ==
    [current_tier |-> tier, financial_state |-> financial]

\* The queries of a poll that failed.
FailedQueries(credits, usdc, probe) ==
    {n \in {"credits"} : ~credits.ok} \cup {n \in {"usdc"} : ~usdc.ok}
        \cup {n \in {"probe"} : probe = "throws"}

\* checkResources(): the three guarded queries, the financial snapshot, the
\* tier, the comparison with the stored tier, the two writes, the result.
\* An exception that escaped a query would end the call before the writes.
CheckResources(credits, usdc, probe) ==
    LET c == TryGetCredits(credits)
        u == TryGetUsdc(usdc)
        h == TryProbe(probe)
        financial == [creditsCents |-> c.value, usdcBalance |-> u.value,
                      lastChecked |-> clock + 1]
        tier == GetSurvivalTier(c.value, thresholds)
        previousTier == kv.current_tier
    IN  /\ clock < MaxPolls
        /\ clock' = clock + 1
        /\ known' = IF credits.ok
                    THEN [has |-> TRUE, creditsCents |-> credits.value]
                    ELSE known
        /\ IF c.raised \/ u.raised \/ h.raised
           THEN /\ lastStatus' =
                       [NoStatus EXCEPT
                           !.threw = TRUE,
                           !.failed = FailedQueries(credits, usdc, probe)]
                /\ kv' = kv
           ELSE /\ lastStatus' =
                       [financial |-> financial, tier |-> tier,
                        previousTier |-> previousTier,
                        tierChanged |-> TierChanged(previousTier, tier),
                        sandboxHealthy |-> h.value,
                        threw |-> FALSE,
                        failed |-> FailedQueries(credits, usdc, probe)]
                /\ kv' = Persist(kv, tier, financial)
        /\ UNCHANGED <<tierVars, gateVars, routerVars, agentVars, callVars, sessionVars>>

InitMonitor ==
    /\ thresholds \in {th \in ThresholdConfigs : OrderedThresholds(th)}
    /\ shown = NotShown
    /\ started = NotStarted
    /\ providers = WizardProviders
    /\ ProcessIdle
    /\ GateIdle
    /\ MonitorIdle
    /\ CallsIdle

NextMonitor ==
    \E credits \in CreditsOutcomes, usdc \in UsdcOutcomes,
       probe \in ProbeOutcomes :
        CheckResources(credits, usdc, probe)

SpecMonitor == InitMonitor /\ [][NextMonitor]_vars

(***************************************************************************)
(* C12 - C14: the monitor's poll                                           *)
(***************************************************************************)

\* C12: a poll in which the credits query, the USDC query or the liveness
\* probe fails does not raise: it returns a status whose tierChanged compares
\* the new tier with the tier stored before the poll, reports a sandbox whose
\* probe threw as unhealthy, and leaves the store holding a tier of the
\* enumeration and the financial snapshot that the status carries.
C12_FailingPoll ==
    [][(clock' # clock /\ lastStatus'.failed # {}) =>
           /\ ~lastStatus'.threw
           /\ lastStatus'.tier \in SurvivalTiers
           /\ lastStatus'.tierChanged =
                  (/\ kv.current_tier # "none"
                   /\ kv.current_tier # lastStatus'.tier)
           /\ "probe" \in lastStatus'.failed => ~lastStatus'.sandboxHealthy
           /\ kv'.current_tier = lastStatus'.tier
           /\ kv'.financial_state = lastStatus'.financial
           /\ kv'.financial_state.lastChecked = clock']_vars

\* A poll in which all three queries failed, after a poll that stored normal.
C12_Witness ==
    /\ lastStatus.failed = {"credits", "usdc", "probe"}
    /\ ~lastStatus.threw
    /\ lastStatus.previousTier = "normal"
    /\ lastStatus.tierChanged
    /\ kv.current_tier = lastStatus.tier

\* C13: when the credits query of a poll fails and an earlier poll obtained a
\* balance, the tier of the poll is the tier of the most recent balance
\* obtained; so a failed query right after a healthy poll leaves the tier
\* as it was.
C13_LastKnownBalance ==
    ("credits" \in lastStatus.failed /\ known.has) =>
        lastStatus.tier = GetSurvivalTier(known.creditsCents, thresholds)

\* C14: every poll reports as previousTier the tier the poll before it
\* stored (none when no poll stored one), reports tierChanged exactly when
\* there is a previous tier and it differs from the new one (so never on the
\* first poll), and stores the new tier and the new financial snapshot whether
\* or not the tier changed.
C14_PollBookkeeping ==
    [][clock' # clock =>
           /\ lastStatus'.previousTier = kv.current_tier
           /\ lastStatus'.tierChanged =
                  (/\ lastStatus'.previousTier # "none"
                   /\ lastStatus'.previousTier # lastStatus'.tier)
           /\ kv.current_tier = "none" => ~lastStatus'.tierChanged
           /\ kv'.current_tier = lastStatus'.tier
           /\ kv'.financial_state = lastStatus'.financial
           /\ kv'.financial_state.lastChecked = clock']_vars

\* A second poll that found the tier of the first: nothing changed, and the
\* snapshot of the second poll is stored.
C14_Witness ==
    /\ clock = 2
    /\ lastStatus.previousTier = "low_compute"
    /\ lastStatus.tier = "low_compute"
    /\ ~lastStatus.tierChanged
    /\ kv.financial_state.lastChecked = 2
    /\ kv.current_tier = "low_compute"

(***************************************************************************)
(* Agent loop (runSimpleAgentLoop)                                         *)
(***************************************************************************)

\* Turns the loop makes before it returns (maxTurns, reduced).
MaxTurns == 3

\* The providers of the quick-start configuration: custom alone.
QuickStartProviders ==
    [NoProviders EXCEPT
        !.custom = [configured |-> TRUE,
                    defaultModel |-> DefaultModelOf("custom"),
                    maxTokens |-> ConfiguredMaxTokens]]

\* What inference.chat may do in a turn: throw, answer with text, or answer
\* with tool calls.
ChatOutcomes == {"throws", "text", "tools"}

\* The tools of a turn, as far as the balance is concerned.
ToolNames == {"check_balance", "exec"}

\* A turn up to the end of inference.chat: turnCount++, then the call, made
\* with the client in whatever mode it was last put in. A throw is caught and
\* the loop goes on; so does a turn that ends without tool calls.
AgentChat(outcome) ==
    /\ agent.pc = "chat"
    /\ agent.turnCount < MaxTurns
    /\ agent' = [agent EXCEPT
                    !.turnCount = @ + 1,
                    !.lastCall = [made |-> TRUE, lowCompute |-> lastOp.mode,
                                  balance |-> agent.observed],
                    !.pc = IF outcome = "tools" THEN "tools" ELSE "chat"]
    /\ lastOp' = [op |-> "chat", mode |-> lastOp.mode,
                  before |-> CallName(lastOp)]
    /\ UNCHANGED <<providers, router>>
    /\ UNCHANGED <<tierVars, gateVars, monVars, callVars, sessionVars>>

\* executeToolCall: check_balance queries the balance and returns it as
\* text for the conversation; no tool touches the inference client or the
\* agent state.
ExecuteToolCall(name, balance) ==
    /\ agent.pc = "tools"
    /\ agent' = [agent EXCEPT
                    !.pc = "chat",
                    !.observed = IF name = "check_balance" THEN balance ELSE @]
    /\ UNCHANGED routerVars
    /\ UNCHANGED <<tierVars, gateVars, monVars, callVars, sessionVars>>

\* while (turnCount < maxTurns) fails: the loop and run return.
AgentReturns ==
    /\ agent.pc = "chat"
    /\ agent.turnCount = MaxTurns
    /\ agent' = [agent EXCEPT !.pc = "returned"]
    /\ UNCHANGED routerVars
    /\ UNCHANGED <<tierVars, gateVars, monVars, callVars, sessionVars>>

InitAgent ==
    /\ thresholds \in {th \in ThresholdConfigs : OrderedThresholds(th)}
    /\ shown = NotShown
    /\ started = NotStarted
    /\ providers \in {WizardProviders, QuickStartProviders, NoProviders}
    /\ ProcessIdle
    /\ GateIdle
    /\ MonitorIdle
    /\ CallsIdle

\* One process: run once, then the loop.
NextAgent ==
    \/ \E b \in Balances : started = NotStarted /\ Run(b)
    \/ \E outcome \in ChatOutcomes : AgentChat(outcome)
    \/ \E name \in ToolNames, b \in Balances : ExecuteToolCall(name, b)
    \/ AgentReturns

SpecAgent == InitAgent /\ [][NextAgent]_vars

(***************************************************************************)
(* C15 - C16: the balance and the agent loop's inference calls             *)
(***************************************************************************)

\* The balance classifies as low_compute or critical.
InLowTiers(b) == thresholds.critical <= b /\ b < thresholds.normal

\* C15: the client's low-compute mode follows the tier of the balance. When
\* run enters the loop the mode is on exactly when criticalMin <= balance <
\* normalMin; every inference call of the loop is made with the mode on when
\* the balance the process last obtained is in low_compute or critical, and
\* with the mode off when it is normal.
C15_ModeFollowsTier ==
    /\ (agent.pc = "chat" /\ agent.turnCount = 0) =>
           (lastOp.mode <=> InLowTiers(started.balance))
    /\ agent.lastCall.made =>
           /\ InLowTiers(agent.lastCall.balance) => agent.lastCall.lowCompute
           /\ agent.lastCall.balance >= thresholds.normal =>
                  ~agent.lastCall.lowCompute

\* C16: no inference call is made while the balance is below the critical
\* threshold: run exits at startup without entering the loop, and the loop
\* makes no inference call once the balance the process last obtained is
\* below the critical threshold.
C16_NoCallWhenDead ==
    /\ (started.state # "none" /\ started.balance < thresholds.critical) =>
           (started.exited /\ agent.pc = "off" /\ ~agent.lastCall.made)
    /\ agent.lastCall.made =>
           agent.lastCall.balance >= thresholds.critical

(***************************************************************************)
(* Revenue tracker (RevenueTracker)                                        *)
(***************************************************************************)

\* Concurrent callers of the tracker (request handlers that record).
MaxRecorders == 2

\* recordEarning calls one caller makes.
MaxRecords == 2

RecorderIds == 1..MaxRecorders

\* The service keys and the amounts callers record.
ServiceKeys == {"/api/chat", "/api/micro"}
Amounts == {0, MilliUsdc, UnitsPerAtomic + UnitsPerAtomic \div 2}

\* getEarnings(): { byService: Object.fromEntries(earnings), total }
GetEarningsResult(earn, total) == [byService |-> earn, total |-> total]

IdleRecorder ==
    [pc |-> "idle", service |-> "", amount |-> 0, seen |-> 0, count |-> 0,
     snapshot |-> GetEarningsResult(<<>>, 0)]

\* An earnings entry read when the caller arrived, not when it records.
CurrentAtArrival(earn, r, service) == recorders[r].seen

\* const current = this.earnings.get(service) || 0   (read by caller r)
CurrentEarning(earn, r, service) ==
    IF service \in DOMAIN earn THEN earn[service] ELSE 0

\* A recordEarning that stores the amount where the code adds it.
RecordEarningOverwrites(earn, total, r, service, amount) ==
    [earnings |-> [k \in DOMAIN earn \cup {service} |->
                      IF k = service THEN amount ELSE earn[k]],
     total |-> total + amount]

\* recordEarning(service, amount): the map and the total after the call.
RecordEarningState(earn, total, r, service, amount) ==
    [earnings |-> [k \in DOMAIN earn \cup {service} |->
                      IF k = service
                      THEN CurrentEarning(earn, r, service) + amount
                      ELSE earn[k]],
     total |-> total + amount]

\* A caller gets something to record (a request is being served).
Arrive(r, service, amount) ==
    /\ recorders[r].pc = "idle"
    /\ recorders' =
           [recorders EXCEPT
               ![r] = [@ EXCEPT !.pc = "pending", !.service = service,
                                !.amount = amount,
                                !.seen = IF service \in DOMAIN earnings
                                         THEN earnings[service] ELSE 0]]
    /\ UNCHANGED <<network, reqs, earnings, totalEarnings, calls, wire>>
    /\ UNCHANGED <<tierVars, routerVars, agentVars, monVars, sessionVars>>

\* tracker.recordEarning(service, amount), a synchronous method: it runs to
\* its end before any other caller runs.
RecordEarning(r) ==
    LET q == recorders[r]
        after == RecordEarningState(earnings, totalEarnings, r,
                                    q.service, q.amount)
    IN  /\ q.pc \in {"pending", "recorded"}
        /\ q.count < MaxRecords
        /\ earnings' = after.earnings
        /\ totalEarnings' = after.total
        /\ recorders' = [recorders EXCEPT
                            ![r] = [@ EXCEPT !.pc = "recorded",
                                             !.count = @ + 1]]
        /\ UNCHANGED <<network, reqs, calls, wire>>
        /\ UNCHANGED <<tierVars, routerVars, agentVars, monVars, sessionVars>>

\* tracker.getEarnings()
GetEarnings(r) ==
    /\ recorders[r].pc # "idle"
    /\ recorders' =
           [recorders EXCEPT
               ![r] = [@ EXCEPT
                          !.snapshot =
                              GetEarningsResult(earnings, totalEarnings)]]
    /\ UNCHANGED <<network, reqs, earnings, totalEarnings, calls, wire>>
    /\ UNCHANGED <<tierVars, routerVars, agentVars, monVars, sessionVars>>

InitTracker ==
    /\ thresholds = DefaultThresholds
    /\ shown = NotShown
    /\ started = NotStarted
    /\ providers = WizardProviders
    /\ ProcessIdle
    /\ MonitorIdle
    /\ network = "base"
    /\ reqs = <<>>
    /\ earnings = <<>>
    /\ totalEarnings = 0
    /\ calls = <<>>
    /\ wire = <<>>
    /\ recorders = [r \in RecorderIds |-> IdleRecorder]
    /\ SessionsIdle

NextTracker ==
    \/ \E r \in RecorderIds, service \in ServiceKeys, amount \in Amounts :
           Arrive(r, service, amount)
    \/ \E r \in RecorderIds : RecordEarning(r)
    \/ \E r \in RecorderIds : GetEarnings(r)

SpecTracker == InitTracker /\ [][NextTracker]_vars

(***************************************************************************)
(* C28 - C29: the ledger                                                   *)
(***************************************************************************)

\* The amounts recorded so far under a key, and under any key.
RecordedFor(key) ==
    SumOver([r \in RecorderIds |-> recorders[r].amount * recorders[r].count],
            {r \in RecorderIds : recorders[r].service = key})
RecordedTotal ==
    SumOver([r \in RecorderIds |-> recorders[r].amount * recorders[r].count],
            RecorderIds)

\* C28: after any sequence of recordEarning calls the entry of every key is
\* the sum of the amounts recorded for it and the total is the sum of the
\* entries; every call adds its amount (a repeated call adds again) and none
\* fails; getEarnings returns the map and the total and changes neither.
C28_LedgerSums ==
    /\ [](/\ \A key \in ServiceKeys : LedgerFor(key) = RecordedFor(key)
          /\ totalEarnings = SumOver(earnings, DOMAIN earnings)
          /\ totalEarnings = RecordedTotal)
    /\ [][\A r \in RecorderIds :
            /\ recorders'[r].count # recorders[r].count =>
                  /\ LedgerFor(recorders[r].service)' =
                         LedgerFor(recorders[r].service) + recorders[r].amount
                  /\ totalEarnings' = totalEarnings + recorders[r].amount
            /\ recorders'[r].snapshot # recorders[r].snapshot =>
                  /\ recorders'[r].snapshot.byService = earnings
                  /\ recorders'[r].snapshot.total = totalEarnings
                  /\ earnings' = earnings
                  /\ totalEarnings' = totalEarnings]_vars

\* One caller recorded the same earning twice and read it back, while the
\* other recorded under the other key.
C28_Witness ==
    /\ recorders[1].count = 2 /\ recorders[1].service = "/api/chat"
    /\ recorders[1].amount = MilliUsdc
    /\ recorders[1].snapshot.total = 2 * MilliUsdc + recorders[2].amount
    /\ recorders[2].count = 1 /\ recorders[2].service = "/api/micro"
    /\ recorders[2].amount > 0
    /\ earnings["/api/chat"] = 2 * MilliUsdc

\* Every caller has recorded what it came to record.
AllRecorded ==
    \A r \in RecorderIds : recorders[r].pc = "recorded"

\* C29: increments are not lost and not applied twice when callers
\* interleave: once all concurrent callers have recorded, the entry of every
\* key holds each amount recorded under it exactly once, and so does the
\* total.
C29_NoLostIncrement ==
    AllRecorded =>
        /\ \A key \in ServiceKeys :
               LedgerFor(key) =
                   SumOver([r \in RecorderIds |->
                               recorders[r].amount * recorders[r].count],
                           {r \in RecorderIds : recorders[r].service = key})
        /\ totalEarnings =
               SumOver([key \in ServiceKeys |-> LedgerFor(key)], ServiceKeys)

\* Two callers that arrived before either recorded (each saw an empty entry)
\* recorded under the same key.
C29_Witness ==
    /\ AllRecorded
    /\ \A r \in RecorderIds :
           /\ recorders[r].service = "/api/chat"
           /\ recorders[r].seen = 0
           /\ recorders[r].amount = MilliUsdc
    /\ earnings["/api/chat"] >= 2 * MilliUsdc

(***************************************************************************)
(* Backends (chatViaOpenAiCompatible, chatViaAnthropic)                    *)
(***************************************************************************)

\* Messages in a conversation handed to a backend call.
MaxMessages == 3

\* Attempts the HTTP layer makes for one request on transient statuses.
HttpAttempts == 2

WireShapes == {"openai", "anthropic"}

\* ChatMessage: role and content (a string, possibly empty).
Roles == {"system", "user", "assistant", "tool"}
Contents == {"", "A", "B"}
ChatMessages == [role : Roles, content : Contents]
Conversations == UNION {[1..n -> ChatMessages] : n \in 0..MaxMessages}

\* The statuses the HTTP layer retries.
RetryableStatuses == {429, 500, 502, 503, 504}

\* What a backend answers. completion tells what the body holds in place of
\* the completion: for the OpenAI shape, choices absent, an empty choices
\* array, a choice without message, a message with text, a message with
\* tool calls and null content; for the Anthropic shape, content absent, an
\* empty content array, a text block, a tool_use block. usage tells which
\* token counts the body carries.
NoUsage ==
    [present |-> FALSE, prompt |-> 0, completion |-> 0, hasTotal |-> FALSE,
     total |-> 0]
Usages ==
    {NoUsage,
     [present |-> TRUE, prompt |-> 3, completion |-> 2, hasTotal |-> TRUE,
      total |-> 5],
     [present |-> TRUE, prompt |-> 3, completion |-> 2, hasTotal |-> FALSE,
      total |-> 0],
     [present |-> TRUE, prompt |-> 0, completion |-> 2, hasTotal |-> FALSE,
      total |-> 0]}

ErrorBodies == {"", "{\"error\":\"overloaded\"}"}

CompletionsOf(shape) ==
    IF shape = "anthropic" THEN {"absent", "empty", "text", "tool"}
    ELSE {"absent", "empty", "nomessage", "text", "tool"}

BackendResponses(shape) ==
    [status : {404, 429, 500}, text : ErrorBodies, completion : {"absent"},
     usage : {NoUsage}, model : {""}]
    \cup
    [status : {200}, text : {""}, completion : CompletionsOf(shape),
     usage : {u \in Usages : shape = "anthropic" => ~u.hasTotal},
     model : {"", "served-model"}]

NoResponse ==
    [status |-> 0, text |-> "", completion |-> "absent", usage |-> NoUsage,
     model |-> ""]

\* A response is ok for every status from 200 to 499.
RespOkBelow500(httpStatus) == 200 <= httpStatus /\ httpStatus <= 499

\* resp.ok: the status is in the range 200-299.
RespOk(httpStatus) == 200 <= httpStatus /\ httpStatus <= 299

\* The result of a backend call: thrown error or InferenceResponse.
NoResult ==
    [kind |-> "none", error |-> "", role |-> "", content |-> "",
     toolCalls |-> FALSE, model |-> "",
     usage |-> [promptTokens |-> 0, completionTokens |-> 0,
                totalTokens |-> 0]]

Throw(message) == [NoResult EXCEPT !.kind = "throw", !.error = message]

\* systemPrompt += (systemPrompt ? "\n" : "") + msg.content, over the
\* system messages in order.
RECURSIVE SystemPromptFrom(_, _)
SystemPromptFrom(acc, messages) ==
    IF messages = <<>> THEN acc
    ELSE IF Head(messages).role = "system"
         THEN SystemPromptFrom(
                  acc \o (IF acc # "" THEN "\n" ELSE "") \o Head(messages).content,
                  Tail(messages))
         ELSE SystemPromptFrom(acc, Tail(messages))

IsNotSystem(msg) == msg.role # "system"

\* role: msg.role === "assistant" ? "assistant" : "user"
AnthropicRole(role) == IF role = "assistant" THEN "assistant" ELSE "user"

\* The body chatViaAnthropic sends: system prompt (set only when not empty),
\* remapped transcript, model and max_tokens.
AnthropicBody(params) ==
    LET nonSystemMessages == SelectSeq(params.messages, IsNotSystem)
        systemPrompt == SystemPromptFrom("", params.messages)
    IN  [model |-> params.model,
         max_tokens |-> params.maxTokens,
         messages |-> [i \in DOMAIN nonSystemMessages |->
                          [role |-> AnthropicRole(nonSystemMessages[i].role),
                           content |-> nonSystemMessages[i].content]],
         hasSystem |-> systemPrompt # "",
         system |-> systemPrompt]

\* The body chatViaOpenAiCompatible sends: every message as it is
\* (formatMessage keeps role and content).
OpenAiBody(params) ==
    [model |-> params.model,
     max_tokens |-> params.maxTokens,
     messages |-> [i \in DOMAIN params.messages |->
                      [role |-> params.messages[i].role,
                       content |-> params.messages[i].content]],
     hasSystem |-> FALSE,
     system |-> ""]

RequestBody(shape, params) ==
    IF shape = "anthropic" THEN AnthropicBody(params) ELSE OpenAiBody(params)

\* chatViaOpenAiCompatible after the response: the error of a response that
\* is not ok, the error of a body without a first choice, the TypeError of
\* message.tool_calls on a choice without message, or the response with
\* usage fields defaulted to 0.
OpenAiResult(params, resp) ==
    IF ~RespOk(resp.status)
    THEN Throw("Inference error: " \o NumberToString(resp.status) \o ": "
                   \o resp.text)
    ELSE IF resp.completion \in {"absent", "empty"}
    THEN Throw("No completion choice returned from inference")
    ELSE IF resp.completion = "nomessage"
    THEN Throw("TypeError: Cannot read properties of undefined (reading 'tool_calls')")
    ELSE [kind |-> "ok", error |-> "",
          role |-> "assistant",
          content |-> IF resp.completion = "text" THEN "hi" ELSE "",
          toolCalls |-> resp.completion = "tool",
          model |-> IF resp.model # "" THEN resp.model ELSE params.model,
          usage |-> [promptTokens |-> resp.usage.prompt,
                     completionTokens |-> resp.usage.completion,
                     totalTokens |-> IF resp.usage.hasTotal
                                     THEN resp.usage.total ELSE 0]]

\* chatViaAnthropic after the response: the error of a response that is not
\* ok, or the text blocks joined and the tool_use blocks collected from
\* data.content || [], with totalTokens the sum of the two counts.
AnthropicResult(params, resp) ==
    IF ~RespOk(resp.status)
    THEN Throw("Anthropic error: " \o NumberToString(resp.status) \o ": "
                   \o resp.text)
    ELSE [kind |-> "ok", error |-> "",
          role |-> "assistant",
          content |-> IF resp.completion = "text" THEN "hi" ELSE "",
          toolCalls |-> resp.completion = "tool",
          model |-> IF resp.model # "" THEN resp.model ELSE params.model,
          usage |-> [promptTokens |-> resp.usage.prompt,
                     completionTokens |-> resp.usage.completion,
                     totalTokens |-> resp.usage.prompt + resp.usage.completion]]

BackendResult(shape, params, resp) ==
    IF shape = "anthropic" THEN AnthropicResult(params, resp)
    ELSE OpenAiResult(params, resp)

\* A backend call not yet made, with its parameters.
NewWire(shape, messages) ==
    [pc |-> "new", shape |-> shape,
     params |-> [model |-> "model-x", maxTokens |-> DefaultMaxTokens,
                 messages |-> messages],
     body |-> RequestBody("openai", [model |-> "", maxTokens |-> 0,
                                     messages |-> <<>>]),
     requests |-> 0, attempts |-> 0, resp |-> NoResponse, result |-> NoResult]

\* The function up to its await: the body is built and httpClient.request is
\* called, once.
SendRequest ==
    /\ wire.pc = "new"
    /\ wire' = [wire EXCEPT !.pc = "sent",
                            !.body = RequestBody(wire.shape, wire.params),
                            !.requests = @ + 1]
    /\ UNCHANGED <<calls, recorders>>
    /\ UNCHANGED <<tierVars, gateVars, routerVars, agentVars, monVars,
                   sessionVars>>

\* ResilientHttpClient.request: a transient status is retried while the
\* layer has attempts left.
HttpLayerRetries(httpStatus, attempts) ==
    httpStatus \in RetryableStatuses /\ attempts + 1 < HttpAttempts

\* The backend answers. The HTTP layer sends the request again after a
\* transient status while it has attempts left; otherwise it hands the
\* response to the function, which returns or throws; the conversation and
\* the body end with the call.
BackendAnswers(resp) ==
    /\ wire.pc = "sent"
    /\ IF HttpLayerRetries(resp.status, wire.attempts)
       THEN wire' = [wire EXCEPT !.attempts = @ + 1]
       ELSE wire' = [wire EXCEPT
                        !.pc = "done",
                        !.attempts = @ + 1,
                        !.resp = resp,
                        !.result = BackendResult(wire.shape, wire.params, resp),
                        !.params = [@ EXCEPT !.messages = <<>>],
                        !.body = NewWire(wire.shape, <<>>).body]
    /\ UNCHANGED <<calls, recorders>>
    /\ UNCHANGED <<tierVars, gateVars, routerVars, agentVars, monVars,
                   sessionVars>>

InitBackend ==
    /\ thresholds = DefaultThresholds
    /\ shown = NotShown
    /\ started = NotStarted
    /\ providers = WizardProviders
    /\ ProcessIdle
    /\ GateIdle
    /\ MonitorIdle
    /\ calls = <<>>
    /\ recorders = <<>>
    /\ SessionsIdle
    /\ \E shape \in WireShapes, messages \in Conversations :
           wire = NewWire(shape, messages)

NextBackend ==
    \/ SendRequest
    \/ \E resp \in BackendResponses(wire.shape) : BackendAnswers(resp)

SpecBackend == InitBackend /\ [][NextBackend]_vars

(***************************************************************************)
(* C24 - C27: the backend calls                                            *)
(***************************************************************************)

IsSystem(msg) == msg.role = "system"

\* The contents of messages joined with one newline between consecutive
\* ones.
RECURSIVE JoinContents(_)
JoinContents(messages) ==
    IF messages = <<>> THEN ""
    ELSE IF Len(messages) = 1 THEN messages[1].content
    ELSE messages[1].content \o "\n" \o JoinContents(Tail(messages))

\* C24: in the body sent to the Anthropic backend the system field is the
\* contents of all system messages of the conversation, in order, joined with
\* a single newline between consecutive ones; the transcript holds every
\* other message once, in order, and every role in it is user or assistant.
C24_AnthropicRemap ==
    (wire # <<>> /\ wire.pc = "sent" /\ wire.shape = "anthropic") =>
        LET given == wire.params.messages
            others == SelectSeq(given, IsNotSystem)
        IN  /\ wire.body.system = JoinContents(SelectSeq(given, IsSystem))
            /\ Len(wire.body.messages) = Len(others)
            /\ \A i \in DOMAIN others :
                   /\ wire.body.messages[i].content = others[i].content
                   /\ wire.body.messages[i].role \in {"user", "assistant"}
                   /\ others[i].role \in {"user", "assistant"} =>
                          wire.body.messages[i].role = others[i].role

\* C25: the usage of a returned response has prompt and completion counts
\* taken from the backend's fields, and a total equal to their sum whenever
\* the backend's body carries no total.
C25_UsageTotal ==
    (wire # <<>> /\ wire.pc = "done" /\ wire.result.kind = "ok") =>
        /\ wire.result.usage.promptTokens = wire.resp.usage.prompt
        /\ wire.result.usage.completionTokens = wire.resp.usage.completion
        /\ ~wire.resp.usage.hasTotal =>
               wire.result.usage.totalTokens =
                   wire.resp.usage.prompt + wire.resp.usage.completion

\* The prefix of the error a backend function throws for a response that is
\* not ok.
ErrorPrefix(shape) ==
    IF shape = "anthropic" THEN "Anthropic error: " ELSE "Inference error: "

\* C26: a response whose status is outside 200-299 makes the backend call
\* throw an error that carries the status and the raw body; nothing of a
\* result is returned, and the function has made one request (it does not
\* call the backend again itself).
C26_NonOkThrows ==
    (wire # <<>> /\ wire.pc = "done"
        /\ ~(200 <= wire.resp.status /\ wire.resp.status <= 299)) =>
        /\ wire.result.kind = "throw"
        /\ wire.result.error =
               ErrorPrefix(wire.shape) \o NumberToString(wire.resp.status)
                   \o ": " \o wire.resp.text
        /\ wire.result.content = "" /\ ~wire.result.toolCalls
        /\ wire.result.usage = NoResult.usage
        /\ wire.requests = 1

\* A 429 with a body, handed over after the HTTP layer's attempts, thrown by
\* the Anthropic function.
C26_Witness ==
    /\ wire # <<>> /\ wire.pc = "done" /\ wire.shape = "anthropic"
    /\ wire.resp.status = 429 /\ wire.resp.text # ""
    /\ wire.attempts = HttpAttempts
    /\ wire.result.kind = "throw"
    /\ wire.result.error = "Anthropic error: 429: {\"error\":\"overloaded\"}"

\* C27: an ok response without the completion structure (no choices, an
\* empty choices array, a choice without message, no content blocks) makes
\* the backend call throw the "no completion returned" error.
C27_NoCompletionError ==
    (wire # <<>> /\ wire.pc = "done"
        /\ 200 <= wire.resp.status /\ wire.resp.status <= 299
        /\ wire.resp.completion \in {"absent", "empty", "nomessage"}) =>
        /\ wire.result.kind = "throw"
        /\ wire.result.error = "No completion choice returned from inference"

(***************************************************************************)
(* Inference client: chat                                                  *)
(***************************************************************************)

\* Chat calls in flight at once.
MaxCalls == 2

CallIds == 1..MaxCalls

UpperCaseLetters == "ABCDEFGHIJKLMNOPQRSTUVWXYZ"
LowerCaseLetters == "abcdefghijklmnopqrstuvwxyz"

\* The lower-case letter of every upper-case letter.
LowerCaseOf ==
    [ch \in {SubSeq(UpperCaseLetters, i, i) : i \in 1..Len(UpperCaseLetters)} |->
        LET i == CHOOSE k \in 1..Len(UpperCaseLetters) :
                     SubSeq(UpperCaseLetters, k, k) = ch
        IN  SubSeq(LowerCaseLetters, i, i)]

LowerCaseChar(ch) == IF ch \in DOMAIN LowerCaseOf THEN LowerCaseOf[ch] ELSE ch

\* model.toLowerCase()
RECURSIVE ToLowerCase(_)
ToLowerCase(str) ==
    IF str = "" THEN ""
    ELSE LowerCaseChar(SubSeq(str, 1, 1))
             \o ToLowerCase(SubSeq(str, 2, Len(str)))

\* str.includes(part)
Includes(str, part) ==
    \E i \in 1..(Len(str) - Len(part) + 1) :
        SubSeq(str, i, i + Len(part) - 1) = part

\* resolveProvider(model, providers): the slot of the first configured
\* provider whose pattern the lower-cased model name contains, or "none".
ResolveProvider(model, provs) ==
    LET lowerModel == ToLowerCase(model) IN
    IF Includes(lowerModel, "deepseek") /\ provs.deepseek.configured
    THEN "deepseek"
    ELSE IF (Includes(lowerModel, "qwen") \/ Includes(lowerModel, "tongyi"))
            /\ provs.tongyi.configured
    THEN "tongyi"
    ELSE IF Includes(lowerModel, "claude") /\ provs.anthropic.configured
    THEN "anthropic"
    ELSE IF (Includes(lowerModel, "gpt") \/ Includes(lowerModel, "o1")
                \/ Includes(lowerModel, "o3"))
            /\ provs.openai.configured
    THEN "openai"
    ELSE "none"

\* InferenceOptions as far as routing goes: model "" and maxTokens 0 stand
\* for options left out (both are falsy for `||`).
NoOptions == [model |-> "", maxTokens |-> 0]
InferenceOptions ==
    [model : {"", "GPT-4o", "claude-3-haiku", "llama-3"},
     maxTokens : {0, ConfiguredMaxTokens}]

\* ProviderConfig.name of the provider in a slot: the slot's name, and the
\* name the quick-start configuration gives its custom provider.
ProviderName(slot) == IF slot = "custom" THEN "yunyi-claude" ELSE slot

\* A request whose max_tokens is read from the primary provider and not from
\* the closure.
ChatRequestTorn(rt, provs, opts) ==
    LET model == IF opts.model # "" THEN opts.model ELSE rt.model
        resolved == ResolveProvider(model, provs)
        provider == IF resolved # "none" THEN resolved ELSE rt.provider
    IN  [provider |-> provider,
         model |-> model,
         maxTokens |-> IF opts.maxTokens # 0 THEN opts.maxTokens
                       ELSE PrimaryState(provs).maxTokens,
         shape |-> IF ProviderName(provider) = "anthropic"
                   THEN "anthropic" ELSE "openai"]

\* chat up to the backend function: the model, the provider, the token
\* limit and the backend function of the call.
ChatRequest(rt, provs, opts) ==
    LET model == IF opts.model # "" THEN opts.model ELSE rt.model
        resolved == ResolveProvider(model, provs)
        provider == IF resolved # "none" THEN resolved ELSE rt.provider
    IN  [provider |-> provider,
         model |-> model,
         maxTokens |-> IF opts.maxTokens # 0 THEN opts.maxTokens
                       ELSE rt.maxTokens,
         shape |-> IF ProviderName(provider) = "anthropic"
                   THEN "anthropic" ELSE "openai"]

\* A chat that keeps the model of the call as the current model.
RouterAfterChatKeepsModel(rt, request) == [rt EXCEPT !.model = request.model]

\* The closure after chat: chat assigns none of its variables.
RouterAfterChat(rt, request) == rt

\* The conversation of the calls: a system prompt and a user message.
CallMessages ==
    << [role |-> "system", content |-> "A"], [role |-> "user", content |-> "B"] >>

\* What the backend of a call answers: a completion, an error, a body
\* without completion.
CallResponses(shape) ==
    {resp \in BackendResponses(shape) :
        \/ resp.status = 200 /\ resp.completion = "text" /\ resp.model = ""
             /\ resp.usage.present /\ resp.usage.prompt > 0
             /\ (shape = "openai" => resp.usage.hasTotal)
        \/ resp.status = 500 /\ resp.text # ""
        \/ resp.status = 200 /\ resp.completion = "absent" /\ resp.model = ""
             /\ ~resp.usage.present}

\* A call: its options, the request it made, and, for the record, the
\* closure and the mode at the moment of the call and the call's place in
\* the order of calls.
IdleCall ==
    [pc |-> "idle", opts |-> NoOptions,
     request |-> [provider |-> "none", model |-> "", maxTokens |-> 0,
                  shape |-> "openai"],
     before |-> NoClient, low |-> FALSE, order |-> 0,
     result |-> NoResult]

\* The providers the calls are checked with: deepseek alone, custom alone,
\* all five, anthropic alone, and an OpenAI-compatible gateway whose default
\* model is a claude model next to anthropic.
FullProviders ==
    [slot \in DOMAIN NoProviders |->
        [configured |-> TRUE, defaultModel |-> DefaultModelOf(slot),
         maxTokens |-> IF slot = "deepseek" THEN ConfiguredMaxTokens ELSE 0]]
AnthropicProviders ==
    [NoProviders EXCEPT !.anthropic = FullProviders.anthropic]
GatewayProviders ==
    [NoProviders EXCEPT
        !.openai = [configured |-> TRUE,
                    defaultModel |-> DefaultModelOf("anthropic"),
                    maxTokens |-> 0],
        !.anthropic = FullProviders.anthropic]
ChatProviders ==
    {WizardProviders, QuickStartProviders, FullProviders, AnthropicProviders,
     GatewayProviders}

\* client.chat(messages, opts) up to the await of the backend function: all
\* reads of the closure happen here, in one run of synchronous code.
ChatBegins(c, opts) ==
    LET request == ChatRequest(router, providers, opts) IN
    /\ router.status = "ready"
    /\ calls[c].pc = "idle"
    \* call identifiers are handed out in order
    /\ \A d \in CallIds : d < c => calls[d].pc # "idle"
    /\ calls' = [calls EXCEPT
                    ![c] = [IdleCall EXCEPT
                               !.pc = "sent", !.opts = opts,
                               !.request = request,
                               !.before = router, !.low = lastOp.mode,
                               !.order =
                                   1 + Cardinality({d \in CallIds :
                                                      calls[d].pc # "idle"})]]
    /\ router' = RouterAfterChat(router, request)
    /\ lastOp' = [op |-> "chat", mode |-> lastOp.mode,
                  before |-> CallName(lastOp)]
    /\ UNCHANGED <<providers, agent, wire, recorders>>
    /\ UNCHANGED <<tierVars, gateVars, monVars, sessionVars>>

\* The backend function of a call gets its response and returns or throws.
ChatEnds(c, resp) ==
    LET q == calls[c]
        params == [model |-> q.request.model,
                   maxTokens |-> q.request.maxTokens,
                   messages |-> CallMessages]
    IN  /\ q.pc = "sent"
        /\ calls' = [calls EXCEPT
                        ![c] = [@ EXCEPT
                                   !.pc = "done",
                                   !.result = BackendResult(q.request.shape,
                                                            params, resp)]]
        /\ UNCHANGED <<wire, recorders>>
        /\ UNCHANGED <<tierVars, gateVars, routerVars, agentVars, monVars,
                   sessionVars>>

\* setLowComputeMode between and during the calls.
SwitchMode(enabled) ==
    /\ router.status = "ready"
    /\ router' = SetLowComputeModeState(router, providers, enabled)
    /\ lastOp' = [op |-> "setLowComputeMode", mode |-> enabled,
                  before |-> CallName(lastOp)]
    /\ UNCHANGED <<providers, agent>>
    /\ UNCHANGED <<tierVars, gateVars, monVars, callVars, sessionVars>>

InitChat ==
    /\ thresholds = DefaultThresholds
    /\ shown = NotShown
    /\ started = NotStarted
    /\ providers \in ChatProviders
    /\ router = CreateMultiProviderClient(providers)
    /\ lastOp = [NoOp EXCEPT !.op = "create"]
    /\ agent = NotRunning
    /\ GateIdle
    /\ MonitorIdle
    /\ calls = [c \in CallIds |-> IdleCall]
    /\ wire = <<>>
    /\ recorders = <<>>
    /\ SessionsIdle

NextChat ==
    \/ \E c \in CallIds, opts \in InferenceOptions : ChatBegins(c, opts)
    \/ \E c \in CallIds :
           \E resp \in CallResponses(calls[c].request.shape) : ChatEnds(c, resp)
    \/ \E enabled \in BOOLEAN : SwitchMode(enabled)

SpecChat == InitChat /\ [][NextChat]_vars

\* The calls that have been made.
Made == {c \in CallIds : calls[c].pc # "idle"}

\* C21: while low-compute mode is engaged, the token budget sent by every
\* chat call is at most 2048, whatever options the caller passes.
C21_LowComputeBudget ==
    \A c \in Made :
        calls[c].low => calls[c].request.maxTokens <= LowComputeMaxTokens

\* The slots whose naming pattern a model name matches.
PatternOwners(model) ==
    LET lowerModel == ToLowerCase(model) IN
    {slot \in DOMAIN NoProviders :
        \/ slot = "deepseek" /\ Includes(lowerModel, "deepseek")
        \/ slot = "tongyi" /\ (Includes(lowerModel, "qwen")
                                 \/ Includes(lowerModel, "tongyi"))
        \/ slot = "anthropic" /\ Includes(lowerModel, "claude")
        \/ slot = "openai" /\ (Includes(lowerModel, "gpt")
                                 \/ Includes(lowerModel, "o1")
                                 \/ Includes(lowerModel, "o3"))}

\* A call with a model override that a configured profile owns goes to that
\* profile.
OverrideDispatch ==
    \A c \in Made :
        calls[c].opts.model # "" =>
            \A slot \in PatternOwners(calls[c].opts.model) :
                providers[slot].configured
                    => calls[c].request.provider = slot

\* C22: a call without options.model is dispatched to the currently active
\* profile, for every provider configuration and router state; a call whose
\* options.model matches a pattern owned by a configured profile is
\* dispatched to that profile.
C22_Dispatch ==
    /\ \A c \in Made :
           calls[c].opts.model = ""
               => calls[c].request.provider = calls[c].before.provider
    /\ OverrideDispatch

\* The override half of C22 is reached: an upper-case GPT name goes to
\* openai while another profile is active.
OverrideReached ==
    \E c \in Made :
        /\ calls[c].opts.model = "GPT-4o"
        /\ calls[c].request.provider = "openai"
        /\ calls[c].before.provider # "openai"

\* C23: chat, with or without a model or token override, leaves the router
\* state as it was; the state changes through setLowComputeMode only; a call
\* made without options is routed from the router state, whatever overrides
\* the calls before it carried.
C23_ChatKeepsState ==
    [][/\ (calls' # calls => router' = router)
       /\ (router' # router => lastOp'.op = "setLowComputeMode")
       /\ \A c \in CallIds :
              (calls[c].pc = "idle" /\ calls'[c].pc = "sent"
                  /\ calls'[c].opts = NoOptions)
                  => /\ calls'[c].request.model = router'.model
                     /\ calls'[c].request.maxTokens = router'.maxTokens
                     /\ calls'[c].request =
                            ChatRequest(router', providers', NoOptions)]_vars

\* A call with both overrides was made and has returned, and the call after
\* it, made without options, went out with the router's model and budget.
C23_Witness ==
    \E c, d \in Made :
        /\ calls[c].order < calls[d].order
        /\ calls[c].opts.model = "GPT-4o"
        /\ calls[c].opts.maxTokens = ConfiguredMaxTokens
        /\ calls[c].pc = "done"
        /\ calls[d].opts = NoOptions
        /\ calls[d].request.model = router.model
        /\ calls[d].request.model # calls[c].request.model
        /\ calls[d].request.maxTokens # calls[c].request.maxTokens

\* C30: a mode switch is atomic relative to the chat calls in flight: the
\* model, the token budget and the profile of each call come from the one
\* router state that held when the call was made, also when the mode is
\* switched before the call returns.
C30_OneStatePerCall ==
    \A c \in Made :
        LET q == calls[c]
            model == IF q.opts.model # "" THEN q.opts.model ELSE q.before.model
        IN  /\ q.before.status = "ready"
            /\ q.before \in {PrimaryState(providers),
                             SetLowComputeModeState(PrimaryState(providers),
                                                    providers, TRUE)}
            /\ q.request.model = model
            /\ q.request.maxTokens =
                   IF q.opts.maxTokens # 0 THEN q.opts.maxTokens
                   ELSE q.before.maxTokens
            /\ LET resolved == ResolveProvider(model, providers) IN
                   q.request.provider =
                       IF resolved # "none" THEN resolved
                       ELSE q.before.provider
            /\ (q.pc = "done" /\ q.result.kind = "ok")
                   => q.result.model = q.request.model

\* A call made in normal mode is still in flight after the switch to
\* low-compute mode, and a second call made after the switch carries the
\* low-compute model and budget.
C30_Witness ==
    \E c, d \in Made :
        /\ calls[c].pc = "sent" /\ ~calls[c].low
        /\ calls[c].opts = NoOptions /\ calls[d].opts = NoOptions
        /\ calls[d].low /\ lastOp.mode
        /\ calls[c].request.maxTokens # calls[d].request.maxTokens
        /\ calls[c].request.maxTokens = calls[c].before.maxTokens
        /\ calls[d].request.maxTokens = LowComputeMaxTokens
        /\ calls[d].request.model = router.model

(***************************************************************************)
(* C36: the token budget across the switch to low-compute mode             *)
(***************************************************************************)

\* C36: enabling low-compute mode never increases the token budget: for every
\* provider configuration, a primary provider with a maxTokens below 2048
\* included, the budget after setLowComputeMode(true) is at most the budget
\* before the call.
C36_EnableNeverRaises ==
    [][(lastOp'.op = "setLowComputeMode" /\ lastOp'.mode)
          => router'.maxTokens <= router.maxTokens]_vars

\* The budget after enabling is at most the budget before whenever the
\* budget before is at least the low-compute budget.
EnableLowersLargeBudgets ==
    [][(lastOp'.op = "setLowComputeMode" /\ lastOp'.mode
          /\ router.maxTokens >= LowComputeMaxTokens)
          => router'.maxTokens <= router.maxTokens]_vars

(***************************************************************************)
(* C35: showBalance and run on the same balance                            *)
(***************************************************************************)

\* C35: for every balance and every threshold triple loadConfig can return,
\* the initial state run chooses is the status showBalance reports for the
\* same balance.
C35_ClassifiersAgree ==
    (shown.status # "none" /\ started.state # "none"
        /\ shown.balance = started.balance)
        => shown.status = started.state

\* The two agree whenever the thresholds do not increase from normal to
\* lowCompute to critical.
AgreeWhenOrdered ==
    (thresholds.normal >= thresholds.lowCompute
        /\ thresholds.lowCompute >= thresholds.critical)
        => C35_ClassifiersAgree

(***************************************************************************)
(* User system (UserSystem)                                                *)
(***************************************************************************)

\* Rows the users table may hold, and rows the transactions table may hold.
MaxUsers == 2
MaxTxs == 4

UserIds == 1..MaxUsers

\* balance: 100 and addTransaction(user.id, "reward", 100, ...)
SignupReward == 100

Platforms == {"feishu"}
PlatformUserIds == {"ou_a", "ou_b"}

\* Amounts callers pass to deposit, deduct and trade, in points.
PointAmounts == {-60, 0, 60, 150}

NoUser == [exists |-> FALSE, platform |-> "", platformUserId |-> "",
           balance |-> 0]

\* SELECT * FROM users WHERE platform = ? AND platform_user_id = ?: the ids
\* of the matching rows.
ExistingUsers(us, platform, platformUserId) ==
    {u \in DOMAIN us : /\ us[u].exists
                       /\ us[u].platform = platform
                       /\ us[u].platformUserId = platformUserId}

\* ulid(): an id no row has.
NewUserId(us) == CHOOSE u \in DOMAIN us : ~us[u].exists /\ \A v \in DOMAIN us : (v < u => us[v].exists)

\* An update without the balance + ? >= 0 condition.
UpdateBalanceUnguarded(us, userId, delta) ==
    LET changes == userId \in DOMAIN us /\ us[userId].exists
    IN  [users |-> IF changes
                   THEN [us EXCEPT ![userId].balance = @ + delta]
                   ELSE us,
         ok |-> changes]

\* updateBalance: UPDATE users SET balance = balance + ? WHERE id = ? AND
\* balance + ? >= 0; true when a row changed.
UpdateBalance(us, userId, delta) ==
    LET changes == /\ userId \in DOMAIN us
                   /\ us[userId].exists
                   /\ us[userId].balance + delta >= 0
    IN  [users |-> IF changes
                   THEN [us EXCEPT ![userId].balance = @ + delta]
                   ELSE us,
         ok |-> changes]

\* A log that records no trades.
AddTransactionSkipsTrades(log, userId, type, amount) ==
    IF type = "trade" THEN log
    ELSE Append(log, [userId |-> userId, type |-> type, amount |-> amount])

\* addTransaction: INSERT INTO transactions
AddTransaction(log, userId, type, amount) ==
    Append(log, [userId |-> userId, type |-> type, amount |-> amount])

\* getOrCreateUser(platform, platformUserId): the tables after the call and
\* the id of the user returned.
GetOrCreateUserState(us, log, platform, platformUserId) ==
    LET existing == ExistingUsers(us, platform, platformUserId) IN
    IF existing # {}
    THEN [users |-> us, txs |-> log, user |-> CHOOSE u \in existing : TRUE,
          ok |-> TRUE]
    ELSE LET id == NewUserId(us) IN
         [users |-> [us EXCEPT ![id] = [exists |-> TRUE,
                                        platform |-> platform,
                                        platformUserId |-> platformUserId,
                                        balance |-> SignupReward]],
          txs |-> AddTransaction(log, id, "reward", SignupReward),
          user |-> id,
          ok |-> TRUE]

\* deposit(userId, amount)
DepositState(us, log, userId, amount) ==
    IF amount <= 0
    THEN [users |-> us, txs |-> log, user |-> userId, ok |-> FALSE]
    ELSE LET upd == UpdateBalance(us, userId, amount) IN
         [users |-> upd.users,
          txs |-> IF upd.ok
                  THEN AddTransaction(log, userId, "deposit", amount)
                  ELSE log,
          user |-> userId, ok |-> upd.ok]

\* deduct(userId, amount)
DeductState(us, log, userId, amount) ==
    IF amount <= 0
    THEN [users |-> us, txs |-> log, user |-> userId, ok |-> FALSE]
    ELSE LET upd == UpdateBalance(us, userId, -amount) IN
         [users |-> upd.users,
          txs |-> IF upd.ok
                  THEN AddTransaction(log, userId, "fee", -amount)
                  ELSE log,
          user |-> userId, ok |-> upd.ok]

\* trade(userId, amount, ...)
TradeState(us, log, userId, amount) ==
    LET upd == UpdateBalance(us, userId, amount) IN
    [users |-> upd.users,
     txs |-> IF upd.ok
             THEN AddTransaction(log, userId, "trade", amount)
             ELSE log,
     user |-> userId, ok |-> upd.ok]

\* getBalance(userId): row?.balance || 0
GetBalance(us, userId) ==
    IF userId \in DOMAIN us /\ us[userId].exists THEN us[userId].balance ELSE 0

NoUserOp == [op |-> "none", user |-> 0, amount |-> 0, ok |-> FALSE,
             key |-> ""]

\* One call of a UserSystem method: the tables after it and the record of
\* the call. Each method is synchronous and runs to its end.
UserCall(op, key, amount, after) ==
    /\ Len(txs) < MaxTxs
    /\ users' = after.users
    /\ txs' = after.txs
    /\ userOp' = [op |-> op, user |-> after.user, amount |-> amount,
                  ok |-> after.ok, key |-> key]
    /\ UNCHANGED <<handlerVars, loopVars>>
    /\ UNCHANGED <<tierVars, gateVars, routerVars, agentVars, monVars, callVars>>

GetOrCreateUser(platform, platformUserId) ==
    UserCall("getOrCreateUser", platformUserId, 0,
             GetOrCreateUserState(users, txs, platform, platformUserId))

Deposit(userId, amount) ==
    UserCall("deposit", "", amount, DepositState(users, txs, userId, amount))

Deduct(userId, amount) ==
    UserCall("deduct", "", amount, DeductState(users, txs, userId, amount))

Trade(userId, amount) ==
    UserCall("trade", "", amount, TradeState(users, txs, userId, amount))

\* new UserSystem(dbPath) on a new database file.
InitUsers ==
    /\ thresholds = DefaultThresholds
    /\ shown = NotShown
    /\ started = NotStarted
    /\ providers = WizardProviders
    /\ ProcessIdle
    /\ GateIdle
    /\ MonitorIdle
    /\ calls = <<>>
    /\ wire = <<>>
    /\ recorders = <<>>
    /\ users = [u \in UserIds |-> NoUser]
    /\ txs = <<>>
    /\ userOp = NoUserOp
    /\ conversationHistory = <<>>
    /\ handlers = <<>>
    /\ arrivals = 0
    /\ history = <<>>
    /\ loop = <<>>

NextUsers ==
    \/ \E platform \in Platforms, pid \in PlatformUserIds :
           GetOrCreateUser(platform, pid)
    \/ \E u \in UserIds, amount \in PointAmounts : Deposit(u, amount)
    \/ \E u \in UserIds, amount \in PointAmounts : Deduct(u, amount)
    \/ \E u \in UserIds, amount \in PointAmounts : Trade(u, amount)

SpecUsers == InitUsers /\ [][NextUsers]_vars

(***************************************************************************)
(* C38, C39: the points ledger                                             *)
(***************************************************************************)

\* The change of balance the last call asked for.
AskedDelta(o) ==
    CASE o.op = "deposit" -> o.amount
      [] o.op = "deduct" -> -o.amount
      [] o.op = "trade" -> o.amount
      [] OTHER -> 0

\* C38: every user's balance is at least 0 after any sequence of
\* getOrCreateUser, deposit, deduct and trade; a call that would take the
\* balance below zero, and a deposit or deduct of a non-positive amount,
\* returns false and leaves the balances and the transaction log unchanged.
C38_BalanceNeverNegative ==
    /\ [](\A u \in UserIds : users[u].balance >= 0)
    /\ [][LET o == userOp' IN
          /\ (o.op \in {"deposit", "deduct"} /\ o.amount <= 0)
                 => (~o.ok /\ users' = users /\ txs' = txs)
          /\ (o.op \in {"deposit", "deduct", "trade"}
                 /\ GetBalance(users, o.user) + AskedDelta(o) < 0)
                 => (~o.ok /\ users' = users /\ txs' = txs)]_vars

\* A user who spent 60 of the 100 points was refused a second deduct of 60.
C38_Witness ==
    /\ userOp.op = "deduct" /\ userOp.amount = 60 /\ ~userOp.ok
    /\ users[userOp.user].exists
    /\ users[userOp.user].balance = SignupReward - 60
    /\ Len(txs) = 2

RECURSIVE SumOfTxs(_, _)
SumOfTxs(log, u) ==
    IF log = <<>> THEN 0
    ELSE (IF log[1].userId = u THEN log[1].amount ELSE 0)
             + SumOfTxs(Tail(log), u)

\* C39: each user's balance is the sum of the amounts of that user's
\* transaction records, each user has exactly one signup reward, and
\* getOrCreateUser for a (platform, platformUserId) that has a user returns
\* that user and changes nothing.
C39_LedgerConsistent ==
    /\ [](\A u \in UserIds :
             /\ users[u].balance = SumOfTxs(txs, u)
             /\ users[u].exists =>
                    /\ Cardinality({i \in 1..Len(txs) :
                                      txs[i].userId = u
                                          /\ txs[i].type = "reward"}) = 1
                    /\ ExistingUsers(users, users[u].platform,
                                     users[u].platformUserId) = {u})
    /\ [][(userOp'.op = "getOrCreateUser"
             /\ ExistingUsers(users, "feishu", userOp'.key) # {})
             => /\ userOp'.user \in ExistingUsers(users, "feishu", userOp'.key)
                /\ users' = users
                /\ txs' = txs]_vars

\* A user was created, traded 60 points away, and was fetched again: the
\* same user with 40 points and one reward.
C39_Witness ==
    /\ userOp.op = "getOrCreateUser"
    /\ users[userOp.user].balance = SignupReward - 60
    /\ \E i \in 1..Len(txs) : txs[i].type = "trade" /\ txs[i].userId = userOp.user
    /\ Len(txs) = 2

(***************************************************************************)
(* Message handler (FeishuBot event -> MessageHandler.handleMessage)       *)
(***************************************************************************)

\* Event-handler runs in progress at once, and messages arriving in all.
MaxHandlers == 2
MaxArrivals == 3

HandlerIds == 1..MaxHandlers

\* PRICING.chat
ChatShort == 1
ChatMedium == 3
ChatLong == 5

\* history.length > 20 and history.slice(-18)
ChatHistoryCap == 20
ChatHistoryTail == 18

\* The arrays the handler's histories live in: the map holds references to
\* arrays, and so does the local variable `history` of every run.
ArrayIds == 1..(MaxUsers + MaxHandlers)

\* What a message is, as far as the handler goes: a quick command, or text
\* of a length.
MessageKinds == {"command", "text"}
InputLengths == {5, 600}

\* Length of the reply the backend returns (0: no content), and the length
\* of the text handleChat puts in place of an empty reply.
ReplyLengths == {0, 100, 500}
FallbackReplyLength == 13

SystemEntry == [role |-> "system", n |-> 0]

\* calculateChatFee(input, output)
CalculateChatFee(inputLength, outputLength) ==
    LET totalLength == inputLength + outputLength IN
    IF totalLength < 200 THEN ChatShort
    ELSE IF totalLength < 1000 THEN ChatMedium
    ELSE ChatLong

\* if (history.length > 20) history = [history[0], ...history.slice(-18)]
TrimChatHistory(arr) ==
    IF Len(arr) > ChatHistoryCap
    THEN <<arr[1]>> \o SubSeq(arr, Len(arr) - ChatHistoryTail + 1, Len(arr))
    ELSE arr

IdleHandler ==
    [pc |-> "idle", user |-> 0, n |-> 0, inputLength |-> 0, ref |-> 0,
     replyLength |-> 0, fee |-> 0, deducted |-> FALSE, ret |-> "none"]

\* The arrays something still refers to: the map's and those of the runs
\* waiting for the backend, but for run h.
LiveArrays(conv, hs, h) ==
    {conv.map[u] : u \in DOMAIN conv.map}
        \cup {hs[g].ref : g \in {g \in DOMAIN hs : g # h /\ hs[g].pc = "chat"}}

\* The array a `[]` or a `[...]` expression creates: one nothing refers to.
NewArray(conv, hs, h) ==
    CHOOSE a \in ArrayIds :
        /\ a \notin LiveArrays(conv, hs, h)
        /\ \A b \in ArrayIds : b < a => b \in LiveArrays(conv, hs, h)

\* Arrays nothing refers to are gone.
Collect(conv, hs) ==
    [conv EXCEPT !.heap = [a \in ArrayIds |->
                              IF a \in LiveArrays(conv, hs, 0)
                              THEN conv.heap[a] ELSE <<>>]]

\* handleMessage up to the await of inference.chat: getOrCreateUser, the
\* quick commands, and handleChat's balance check and pushes.
HandleMessageBegins(h, senderId, kind, inputLength) ==
    LET got == GetOrCreateUserState(users, txs, "feishu", senderId)
        userId == got.user
        balance == GetBalance(got.users, userId)
        stored == conversationHistory.map[userId]
        ref == IF stored # 0 THEN stored
               ELSE NewArray(conversationHistory, handlers, h)
        before == IF stored # 0 THEN conversationHistory.heap[stored] ELSE <<>>
        n == arrivals + 1
        pushed == (IF before = <<>> THEN <<SystemEntry>> ELSE before)
                      \o <<[role |-> "user", n |-> n]>>
        run == [IdleHandler EXCEPT !.user = userId, !.n = n,
                                   !.inputLength = inputLength]
    IN  /\ handlers[h].pc \in {"idle", "done"}
        /\ arrivals < MaxArrivals
        /\ arrivals' = n
        /\ users' = got.users
        /\ txs' = got.txs
        /\ userOp' = [op |-> "getOrCreateUser", user |-> userId, amount |-> 0,
                      ok |-> TRUE, key |-> senderId]
        /\ IF kind = "command"
           THEN /\ handlers' = [handlers EXCEPT
                                   ![h] = [run EXCEPT !.pc = "done",
                                                      !.ret = "command"]]
                /\ UNCHANGED conversationHistory
           ELSE IF balance < ChatShort
           THEN /\ handlers' = [handlers EXCEPT
                                   ![h] = [run EXCEPT !.pc = "done",
                                                      !.ret = "insufficient"]]
                /\ UNCHANGED conversationHistory
           ELSE /\ handlers' = [handlers EXCEPT
                                   ![h] = [run EXCEPT !.pc = "chat",
                                                      !.ref = ref]]
                /\ conversationHistory' =
                       [conversationHistory EXCEPT !.heap[ref] = pushed]
        /\ UNCHANGED loopVars
        /\ UNCHANGED <<tierVars, gateVars, routerVars, agentVars, monVars, callVars>>

\* inference.chat returned: the reply is pushed, the history trimmed and
\* stored, the fee computed and deducted, the reply returned.
InferenceReturns(h, replyLength) ==
    LET run == handlers[h]
        length == IF replyLength = 0 THEN FallbackReplyLength ELSE replyLength
        pushed == Append(conversationHistory.heap[run.ref],
                         [role |-> "assistant", n |-> run.n])
        trimmed == TrimChatHistory(pushed)
        ref == IF Len(pushed) > ChatHistoryCap
               THEN NewArray(conversationHistory, handlers, 0)
               ELSE run.ref
        fee == CalculateChatFee(run.inputLength, length)
        paid == DeductState(users, txs, run.user, fee)
        done == [handlers EXCEPT
                    ![h] = [run EXCEPT !.pc = "done", !.ref = 0,
                                       !.replyLength = length, !.fee = fee,
                                       !.deducted = paid.ok, !.ret = "reply"]]
    IN  /\ run.pc = "chat"
        /\ handlers' = done
        /\ conversationHistory' =
               Collect([map |-> [conversationHistory.map EXCEPT ![run.user] = ref],
                        heap |-> [conversationHistory.heap EXCEPT
                                     ![run.ref] = pushed, ![ref] = trimmed]],
                       done)
        /\ users' = paid.users
        /\ txs' = paid.txs
        /\ userOp' = [op |-> "deduct", user |-> run.user, amount |-> fee,
                      ok |-> paid.ok, key |-> ""]
        /\ UNCHANGED <<arrivals, loopVars>>
        /\ UNCHANGED <<tierVars, gateVars, routerVars, agentVars, monVars, callVars>>

\* inference.chat threw: the catch returns the apology.
InferenceThrows(h) ==
    LET run == handlers[h]
        done == [handlers EXCEPT
                    ![h] = [run EXCEPT !.pc = "done", !.ref = 0,
                                       !.ret = "unavailable"]]
    IN  /\ run.pc = "chat"
        /\ handlers' = done
        /\ conversationHistory' = Collect(conversationHistory, done)
        /\ UNCHANGED <<userVars, arrivals, loopVars>>
        /\ UNCHANGED <<tierVars, gateVars, routerVars, agentVars, monVars, callVars>>

\* Balances the users table holds for the first user when the server
\* starts: none (no row), or what earlier runs left.
StoredBalances == {0, 2, SignupReward}

\* new UserSystem(dbPath) on a database earlier runs wrote, and
\* new MessageHandler(...).
InitHandler ==
    /\ thresholds = DefaultThresholds
    /\ shown = NotShown
    /\ started = NotStarted
    /\ providers = WizardProviders
    /\ ProcessIdle
    /\ GateIdle
    /\ MonitorIdle
    /\ calls = <<>>
    /\ wire = <<>>
    /\ recorders = <<>>
    /\ \E b \in StoredBalances :
           /\ users = [u \in UserIds |->
                          IF u = 1
                          THEN [exists |-> TRUE, platform |-> "feishu",
                                platformUserId |-> "ou_a", balance |-> b]
                          ELSE NoUser]
           /\ txs = IF b = SignupReward
                    THEN <<[userId |-> 1, type |-> "reward",
                            amount |-> SignupReward]>>
                    ELSE <<[userId |-> 1, type |-> "reward",
                            amount |-> SignupReward],
                           [userId |-> 1, type |-> "fee",
                            amount |-> b - SignupReward]>>
    /\ userOp = NoUserOp
    /\ conversationHistory = [map |-> [u \in UserIds |-> 0],
                              heap |-> [a \in ArrayIds |-> <<>>]]
    /\ handlers = [h \in HandlerIds |-> IdleHandler]
    /\ arrivals = 0
    /\ history = <<>>
    /\ loop = <<>>

NextHandler ==
    \/ \E h \in HandlerIds, senderId \in PlatformUserIds,
          kind \in MessageKinds, inputLength \in InputLengths :
           HandleMessageBegins(h, senderId, kind, inputLength)
    \/ \E h \in HandlerIds, replyLength \in ReplyLengths :
           InferenceReturns(h, replyLength)
    \/ \E h \in HandlerIds : InferenceThrows(h)

SpecHandler == InitHandler /\ [][NextHandler]_vars

(***************************************************************************)
(* C40, C31: the message handler's fees and turns                          *)
(***************************************************************************)

\* The fee of the price list for an exchange of a combined length.
FeeFor(totalLength) ==
    IF totalLength < 200 THEN 1 ELSE IF totalLength < 1000 THEN 3 ELSE 5

\* The run h returns the model's reply in this step.
ReturnsReply(h) ==
    handlers[h].pc = "chat" /\ handlers'[h].pc = "done"
        /\ handlers'[h].ret = "reply"

\* C40: whenever handleChat returns the model's reply, the user's balance has
\* been reduced by exactly the fee of the exchange (1, 3 or 5 points by
\* combined length); with a balance below the minimum fee no inference call
\* is made; when the inference call fails nothing is deducted.
C40_RepliesArePaid ==
    [][\A h \in HandlerIds :
          /\ ReturnsReply(h) =>
                 users'[handlers[h].user].balance =
                     users[handlers[h].user].balance
                         - FeeFor(handlers[h].inputLength
                                      + handlers'[h].replyLength)
          /\ (handlers[h].pc # "chat" /\ handlers'[h].pc = "chat") =>
                 users'[handlers'[h].user].balance >= 1
          /\ (handlers[h].pc = "chat" /\ handlers'[h].ret = "unavailable") =>
                 (users' = users /\ txs' = txs)]_vars

\* The reply is paid for whenever the balance covers the fee; no call is
\* made below the minimum fee; a failed call costs nothing.
PaidWhenCovered ==
    [][\A h \in HandlerIds :
          /\ (ReturnsReply(h)
                /\ users[handlers[h].user].balance
                       >= FeeFor(handlers[h].inputLength
                                     + handlers'[h].replyLength)) =>
                 /\ users'[handlers[h].user].balance =
                        users[handlers[h].user].balance
                            - FeeFor(handlers[h].inputLength
                                         + handlers'[h].replyLength)
                 /\ handlers'[h].deducted
          /\ (handlers[h].pc # "chat" /\ handlers'[h].pc = "chat") =>
                 users'[handlers'[h].user].balance >= 1
          /\ (handlers[h].pc = "chat" /\ handlers'[h].ret = "unavailable") =>
                 (users' = users /\ txs' = txs)]_vars

\* The runs waiting for the backend on the history of user u.
InFlight(u) ==
    {h \in HandlerIds : handlers[h].pc = "chat" /\ handlers[h].user = u}

\* The history the map holds for user u.
StoredHistory(u) ==
    IF conversationHistory.map[u] = 0 THEN <<>>
    ELSE conversationHistory.heap[conversationHistory.map[u]]

\* C31: turns on one conversation history are strictly sequential: for any
\* arrival order of messages at most one inference call is in flight for a
\* user's history, and the message and the reply of every answered exchange
\* are in the user's history.
C31_TurnsSequential ==
    /\ \A u \in UserIds : Cardinality(InFlight(u)) <= 1
    /\ \A h \in HandlerIds :
           (handlers[h].pc = "done" /\ handlers[h].ret = "reply") =>
               \E i \in 1..Len(StoredHistory(handlers[h].user)) :
                   /\ i > 1
                   /\ StoredHistory(handlers[h].user)[i] =
                          [role |-> "assistant", n |-> handlers[h].n]
                   /\ \E j \in 1..(i - 1) :
                          StoredHistory(handlers[h].user)[j] =
                              [role |-> "user", n |-> handlers[h].n]

\* No message or reply of an answered exchange is missing from the history.
NoExchangeLost ==
    \A h \in HandlerIds :
        (handlers[h].pc = "done" /\ handlers[h].ret = "reply") =>
            \E i, j \in 1..Len(StoredHistory(handlers[h].user)) :
                /\ j < i
                /\ StoredHistory(handlers[h].user)[i] =
                       [role |-> "assistant", n |-> handlers[h].n]
                /\ StoredHistory(handlers[h].user)[j] =
                       [role |-> "user", n |-> handlers[h].n]

(***************************************************************************)
(* Agent loop history (runSimpleAgentLoop)                                 *)
(***************************************************************************)

\* conversationHistory.length > 52 and splice(1, length - 51)
LoopHistoryCap == 52
LoopHistoryKeep == 51

\* The most tool calls one reply carries.
BurstCalls == 51

\* Tool calls a reply may carry: none, one, two, or many.
ToolCallCounts == {1, 2, BurstCalls}

NoToolCallId == <<0, 0>>

\* Entries of the history: the role, the tool_call_id of a tool entry and the
\* ids of the tool_calls of an assistant entry.
LoopEntry(role) == [role |-> role, id |-> NoToolCallId, calls |-> {}]

\* The tool calls of the reply of a turn: ids the backend made up, and
\* whether JSON.parse accepts the arguments; `bad` is the index of the call
\* with malformed arguments, 0 for none.
ToolCallsOf(turn, count, bad) ==
    [i \in 1..count |-> [id |-> <<turn, i>>, parses |-> i # bad]]

\* What inference.chat resolves with: text, text with [sleep], or tool calls.
ChatReplies(turn) ==
    {[kind |-> "text", toolCalls |-> <<>>],
     [kind |-> "sleep", toolCalls |-> <<>>]}
        \cup {[kind |-> "tools", toolCalls |-> ToolCallsOf(turn, count, bad)] :
                 count \in ToolCallCounts, bad \in {0, 1}}
        \cup {[kind |-> "tools", toolCalls |-> ToolCallsOf(turn, count, count)] :
                 count \in ToolCallCounts}

\* A turn counter that failed turns leave alone.
NextTurnCountStuck(turnCount) == turnCount

\* turnCount++
NextTurnCount(turnCount) == turnCount + 1

\* if (length > 52) splice(1, length - 51): the entries from the second on
\* are removed until 51 are left.
TrimLoopHistory(hist) ==
    IF Len(hist) > LoopHistoryCap
    THEN <<hist[1]>> \o SubSeq(hist, Len(hist) - LoopHistoryKeep + 2, Len(hist))
    ELSE hist

NotLooping ==
    [pc |-> "top", turnCount |-> 0, pending |-> <<>>, inFlight |-> 0,
     failed |-> "none", unparsed |-> FALSE]

LoopUnchanged ==
    /\ UNCHANGED <<userVars, handlerVars>>
    /\ UNCHANGED <<tierVars, gateVars, routerVars, agentVars, monVars, callVars>>

\* while (turnCount < maxTurns): turnCount++ and the inference request.
TurnBegins ==
    /\ loop.pc = "top"
    /\ loop.turnCount < MaxTurns
    /\ loop' = [loop EXCEPT !.pc = "chat",
                            !.turnCount = NextTurnCount(loop.turnCount),
                            !.inFlight = @ + 1,
                            !.failed = "none"]
    /\ UNCHANGED history
    /\ LoopUnchanged

\* while (turnCount < maxTurns) fails: the loop and the function end.
LoopEnds ==
    /\ loop.pc = "top"
    /\ loop.turnCount >= MaxTurns
    /\ loop' = [loop EXCEPT !.pc = "ended"]
    /\ UNCHANGED history
    /\ LoopUnchanged

\* inference.chat resolved: the reply is pushed; with tool calls the first
\* one's arguments are parsed and the tool started, without them the agent
\* sleeps on [sleep], else the history is trimmed and the turn's delay begins.
ChatResolves(reply) ==
    LET entry == [LoopEntry("assistant") EXCEPT
                     !.calls = {reply.toolCalls[i].id :
                                   i \in 1..Len(reply.toolCalls)}]
        pushed == Append(history, entry)
    IN  /\ loop.pc = "chat"
        /\ IF reply.kind = "tools"
           THEN /\ history' = pushed
                /\ loop' = IF reply.toolCalls[1].parses
                           THEN [loop EXCEPT !.pc = "tool",
                                             !.pending = reply.toolCalls,
                                             !.inFlight = @ - 1,
                                             !.unparsed = FALSE]
                           ELSE [loop EXCEPT !.pc = "backoff",
                                             !.inFlight = @ - 1,
                                             !.failed = "parse",
                                             !.unparsed = TRUE]
           ELSE IF reply.kind = "sleep"
           THEN /\ history' = pushed
                /\ loop' = [loop EXCEPT !.pc = "sleeping", !.inFlight = @ - 1,
                                        !.unparsed = FALSE]
           ELSE /\ history' = TrimLoopHistory(pushed)
                /\ loop' = [loop EXCEPT !.pc = "delay", !.inFlight = @ - 1,
                                        !.unparsed = FALSE]
        /\ LoopUnchanged

\* inference.chat rejected: the catch logs and waits.
ChatRejects ==
    /\ loop.pc = "chat"
    /\ loop' = [loop EXCEPT !.pc = "backoff", !.inFlight = @ - 1,
                            !.failed = "chat"]
    /\ UNCHANGED history
    /\ LoopUnchanged

\* executeToolCall resolved (it catches its own errors): the tool entry is
\* pushed; the next call's arguments are parsed and the tool started, or,
\* after the last call, the history is trimmed and the turn's delay begins.
ToolResolves ==
    LET call == loop.pending[1]
        rest == Tail(loop.pending)
        pushed == Append(history, [LoopEntry("tool") EXCEPT !.id = call.id])
    IN  /\ loop.pc = "tool"
        /\ IF rest = <<>>
           THEN /\ history' = TrimLoopHistory(pushed)
                /\ loop' = [loop EXCEPT !.pc = "delay", !.pending = <<>>]
           ELSE /\ history' = pushed
                /\ loop' = IF rest[1].parses
                           THEN [loop EXCEPT !.pending = rest]
                           ELSE [loop EXCEPT !.pc = "backoff",
                                             !.pending = <<>>,
                                             !.failed = "parse",
                                             !.unparsed = TRUE]
        /\ LoopUnchanged

\* sleep(60000) is over: the wake-up message is pushed, the history trimmed,
\* the turn's delay begins.
WakesUp ==
    /\ loop.pc = "sleeping"
    /\ history' = TrimLoopHistory(Append(history, LoopEntry("user")))
    /\ loop' = [loop EXCEPT !.pc = "delay"]
    /\ LoopUnchanged

\* sleep(1000) after a turn or sleep(5000) after a failed one is over.
DelayEnds ==
    /\ loop.pc \in {"delay", "backoff"}
    /\ loop' = [loop EXCEPT !.pc = "top"]
    /\ UNCHANGED history
    /\ LoopUnchanged

InitLoop ==
    /\ thresholds = DefaultThresholds
    /\ shown = NotShown
    /\ started = NotStarted
    /\ providers = WizardProviders
    /\ ProcessIdle
    /\ GateIdle
    /\ MonitorIdle
    /\ calls = <<>>
    /\ wire = <<>>
    /\ recorders = <<>>
    /\ users = <<>>
    /\ txs = <<>>
    /\ userOp = <<>>
    /\ conversationHistory = <<>>
    /\ handlers = <<>>
    /\ arrivals = 0
    /\ history = <<LoopEntry("system"), LoopEntry("user")>>
    /\ loop = NotLooping

NextLoop ==
    \/ TurnBegins
    \/ LoopEnds
    \/ \E reply \in ChatReplies(loop.turnCount) : ChatResolves(reply)
    \/ ChatRejects
    \/ ToolResolves
    \/ WakesUp
    \/ DelayEnds

SpecLoop == InitLoop /\ [][NextLoop]_vars

(***************************************************************************)
(* C32, C33, C34, C37: the agent loop's turns and history                  *)
(***************************************************************************)

\* The positions between the steps of a turn's body: the loop test, the
\* inference request and the waits that end a turn.
BetweenTurns == loop.pc \in {"top", "chat", "delay", "backoff", "ended"}

\* The index of the last assistant entry of the history, 0 without one.
LastReply ==
    IF \E i \in 1..Len(history) : history[i].role = "assistant"
    THEN CHOOSE i \in 1..Len(history) :
             /\ history[i].role = "assistant"
             /\ \A j \in (i + 1)..Len(history) : history[j].role # "assistant"
    ELSE 0

\* Every tool call of the last reply has its result after the reply.
LastReplyAnswered ==
    LastReply # 0 =>
        \A id \in history[LastReply].calls :
            \E j \in (LastReply + 1)..Len(history) :
                history[j].role = "tool" /\ history[j].id = id

\* C32: before every inference request after the first, the history holds
\* the previous assistant reply followed by one tool-result entry, with the
\* matching tool_call_id, for each tool call of that reply: no turn begins
\* while a tool call of the previous reply has no result in the history.
C32_TurnOrdering ==
    (loop.pc = "chat" /\ loop.turnCount > 1) => LastReplyAnswered

\* The ordering holds at every request made while the arguments of every
\* tool call of the last reply parsed.
OrderedWhenParsed ==
    (loop.pc = "chat" /\ ~loop.unparsed) => LastReplyAnswered

\* C33: the conversation never exceeds its cap between the steps of a turn
\* (52 entries for the agent loop), and the first entry stays the system
\* entry through every truncation.
C33_BoundedHistory ==
    /\ BetweenTurns => Len(history) <= LoopHistoryCap
    /\ history[1] = LoopEntry("system")

\* The cap holds at the end of every turn that reached its trim, and the
\* system entry is always first.
BoundedAfterTrim ==
    /\ [](history[1] = LoopEntry("system"))
    /\ [][(loop'.pc = "delay" /\ loop.pc # "delay")
             => Len(history') <= LoopHistoryCap]_vars

\* C34: the agent loop is a finite loop with a bounded turn counter:
\* whatever the backend and the tools return or throw, it performs at most
\* maxTurns turns, every turn, successful or failed, increments the counter,
\* and the loop eventually ends.
C34_LoopTerminates ==
    /\ [](loop.turnCount <= MaxTurns)
    /\ [][(loop.pc = "top" /\ loop'.pc = "chat")
             => loop'.turnCount = loop.turnCount + 1]_vars
    /\ [][loop'.turnCount # loop.turnCount
             => (loop.pc = "top" /\ loop'.pc = "chat")]_vars
    /\ <>(loop.pc = "ended")

\* The loop ended after its last turn failed: a turn that failed counted.
C34_Witness ==
    /\ loop.pc = "ended"
    /\ loop.turnCount = MaxTurns
    /\ loop.failed = "chat"
    /\ Len(history) = 2

\* C37: after every trim each tool entry left in the history is still
\* preceded by the assistant entry whose tool_calls holds its tool_call_id.
C37_NoOrphanedToolResult ==
    \A i \in 1..Len(history) :
        history[i].role = "tool" =>
            \E j \in 1..(i - 1) :
                /\ history[j].role = "assistant"
                /\ history[i].id \in history[j].calls

\* While the history has never been long enough to be trimmed, no tool
\* entry is orphaned.
NoOrphanBeforeTrim ==
    [][Len(history') >= Len(history) => (C37_NoOrphanedToolResult => C37_NoOrphanedToolResult')]_vars

\* The agent loop has at most one inference call in flight.
LoopSequential == loop.inFlight <= 1

\* Every await of the loop settles: the inference call (the HTTP layer times
\* out), the tools and the sleeps.
LoopFairness == WF_vars(NextLoop)

SpecLoopLive == InitLoop /\ [][NextLoop]_vars /\ LoopFairness

====
